---- MODULE Spec2Model ----
(***************************************************************************)
(* Model of the J1939 command/response engine of ossm-config               *)
(* (src/src/protocol/j1939.c) on top of the SocketCAN transport            *)
(* (src/src/can/socketcan.c).  The program is single-threaded; pc is the   *)
(* position of its one thread of control.                                  *)
(***************************************************************************)
EXTENDS Integers, Sequences, FiniteSets, TLC

VARIABLES
    pc,           \* position of the thread: main/send/check/poll/cont/ret
    opName,       \* high-level operation being executed ("none" in main)
    args,         \* its arguments
    qtype,        \* query_spn_assignments: query type of the current loop (1, 2)
    subQuery,     \* query_spn_assignments: loop variable subQuery
    tx,           \* frames handed to socketcan_send by this invocation, in order
    sendRes,      \* return value of the last socketcan_send (0 ok, -1 failure)
    frame,        \* check_response: local TCanFrame frame
    elapsed,      \* check_response: local int elapsed
    slept,        \* milliseconds slept (usleep) since the last send_command
    polls,        \* socketcan_receive calls since the last send_command
    results,      \* return values of this invocation's check_response calls, in order
    rxRes,        \* check_response: return value of its latest socketcan_receive
    checked,      \* expected_cmd of this invocation's check_response calls, in order
    blocks,       \* query_spn_assignments: result blocks of its successful sub-queries
    matched,      \* the last check_response returned from its match branch
    rxErr,        \* some socketcan_receive since the last send_command returned -1
    response,     \* caller's uint8_t response[6]
    respLen,      \* caller's uint8_t len
    result,       \* value returned by the last check_response
    ret,          \* value returned by the operation
    config_state, \* main's TConfigState
    assignments,  \* the TSpnAssignments handed to query_spn_assignments
    entryTable,   \* what that table held when query_spn_assignments was called
    sensor_data,  \* main's TSensorData, readings in units of 1/Scale
    clock,        \* index into ClockTimes of the current reading of CLOCK_MONOTONIC
    rxFrame,      \* main loop: the TCanFrame of its latest successful receive
    updated,      \* return value of the latest j1939_parse_message call
    codecIn,      \* arguments handed to the identifier codec
    codecOut,     \* values the identifier codec returned for them (-1: not called)
    dialog,       \* the dialog that is open ("none" when the main loop runs)
    category,     \* dialog local: int category
    selection,    \* dialog local: int selection
    input,        \* main's int input, written by the dialog
    preset,       \* main's int preset, written by the dialog
    dlgRet,       \* return value of the latest dialog (1 confirmed, 0 cancelled)
    rxQueue,      \* struct can_frames waiting in the socket's receive queue
    awaiting,     \* numbers of the command frames the module has yet to answer
    sendSeq,      \* number of command frames put on the bus so far
    origin,       \* number of the command whose reply the latest call matched
    key,          \* the key whose case of the main loop's switch is running ("none", "F6")
    err,          \* the values assigned to the handler's int err, in order
    screen,       \* the dialog the F6 handler has shown ("none" before it shows one)
    shownTable,   \* the tables passed to ui_dialog_spn_list
    spn,          \* main's int spn, written by ui_dialog_enable_spn
    enable        \* main's bool enable, written by ui_dialog_enable_spn

vars == <<pc, opName, args, qtype, subQuery, tx, sendRes, frame, elapsed, slept,
          polls, results, rxRes, checked, blocks, matched, rxErr, response, respLen,
          result, ret,
          config_state, assignments, entryTable,
          sensor_data, clock, rxFrame, updated,
          codecIn, codecOut, dialog, category, selection, input, preset, dlgRet,
          rxQueue, awaiting, sendSeq, origin,
          key, err, screen, shownTable, spn, enable>>

\* the state of the command/response engine and the state of the telemetry path
engineVars == <<opName, args, qtype, subQuery, tx, sendRes, frame, elapsed, slept,
                polls, results, rxRes, checked, blocks, matched, rxErr, response,
                respLen, result, ret, config_state, assignments, entryTable>>
decodeVars == <<sensor_data, clock, rxFrame, updated>>
codecVars == <<codecIn, codecOut>>
uiVars == <<dialog, category, selection, input, preset, dlgRet>>
busVars == <<rxQueue, awaiting, sendSeq, origin>>
queryVars == <<key, err, screen, shownTable>>
spnVars == <<spn, enable>>

-----------------------------------------------------------------------------
(* Bit arithmetic on unsigned values *)

RECURSIVE BitOr(_, _)
BitOr(a, b) ==
    IF a = 0 THEN b
    ELSE IF b = 0 THEN a
    ELSE (IF (a % 2 = 1) \/ (b % 2 = 1) THEN 1 ELSE 0) + 2 * BitOr(a \div 2, b \div 2)

\* x & (2^bits - 1): every mask in the code is 0x07, 0xFF, 0x3FFFF or CAN_EFF_MASK
Mask(x, bits) == x % (2 ^ bits)

\* every left operand of << in the code is masked first (8, 3 or 18 bits) and
\* the shifted value stays below 2^29, so no shift truncates
Shl(x, n) == x * (2 ^ n)
Shr(x, n) == x \div (2 ^ n)

-----------------------------------------------------------------------------
(* types.h *)

OSSM_SOURCE_ADDRESS == 149
PGN_OSSM_COMMAND == 65280
PGN_OSSM_RESPONSE == 65281

CMD_ENABLE_SPN == 1
CMD_SET_TC_TYPE == 4
CMD_QUERY == 5
CMD_SAVE == 6
CMD_RESET == 7
CMD_NTC_PRESET == 8
CMD_PRESSURE_PRESET == 9

ERR_INVALID_PRESET == 10

PGN_AMBIENT_CONDITIONS == 65269
PGN_INLET_EXHAUST == 65270
PGN_ENGINE_TEMP == 65262
PGN_ENGINE_FLUID_PRESS == 65263
PGN_ENGINE_TEMP_2 == 65129
PGN_ENGINE_TEMP_3 == 65173
PGN_TURBO_PRESS == 65174
\* case 65164 of j1939_parse_message
PGN_SUPPLY_PRESSURE == 65164

\* j1939_check_response: int timeout_ms = 1000; usleep(50000); usleep(5000), elapsed += 5
timeout_ms == 1000
grace_ms == 50
poll_ms == 5

-----------------------------------------------------------------------------
(* Identifier codec *)

\* variant: the PDU-specific byte is kept whatever the PDU format is
j1939_get_pgn_always_ps(can_id) ==
    BitOr(Shl(Mask(Shr(can_id, 16), 8), 8), Mask(Shr(can_id, 8), 8))

\* variant: the PDU-format byte is taken without the & 0xFF
j1939_get_pgn_unmasked_pf(can_id) ==
    LET pf == Shr(can_id, 16)
    IN  IF pf < 240
        THEN Shl(pf, 8)
        ELSE LET ps == Mask(Shr(can_id, 8), 8)
             IN  BitOr(Shl(pf, 8), ps)

j1939_get_pgn(can_id) ==
    LET pf == Mask(Shr(can_id, 16), 8)
    IN  IF pf < 240
        THEN Shl(pf, 8)
        ELSE LET ps == Mask(Shr(can_id, 8), 8)
             IN  BitOr(Shl(pf, 8), ps)

j1939_get_source(can_id) == Mask(can_id, 8)

\* variant: the source address is not packed into the identifier
j1939_build_id_no_source(pgn, priority, source) ==
    BitOr(Shl(Mask(priority, 3), 26), Shl(Mask(pgn, 18), 8))

\* variant: the PGN is masked to 16 bits
j1939_build_id_pgn16(pgn, priority, source) ==
    BitOr(BitOr(Shl(Mask(priority, 3), 26), Shl(Mask(pgn, 16), 8)), source)

j1939_build_id(pgn, priority, source) ==
    BitOr(BitOr(Shl(Mask(priority, 3), 26), Shl(Mask(pgn, 18), 8)), source)

\* identifiers handed to j1939_get_pgn / j1939_get_source: PDU2 and PDU1
\* identifiers, PF 239 and 240, data-page bits 24 and 25 set, the largest
\* 29-bit identifier, and values with bits 29 and 30 set
CodecIds ==
    { 0, 419362197, 419364864, 418379157, 418316437, 418381568, 418381825,
      436139413, 452916629, 469696917, 536870911, 956233109, 1493104021,
      2147483647 }

CodecPgns == { 0, 65280, 65269, 130805, 262143, 262144, 16777215, 2147483647 }
CodecPriorities == { 0, 6, 7, 8, 255 }
CodecSources == { 0, 149, 255 }

NoCodecIn == [id |-> 0, pgn |-> 0, priority |-> 0, source |-> 0]
NoCodecOut == [pgn |-> -1, source |-> -1, built |-> -1, rebuilt |-> -1]

-----------------------------------------------------------------------------
(* Telemetry decoder: j1939_parse_message *)

\* a float reading r is held as the integer r * Scale; every scale factor of
\* the decoder (1, 2, 4, 0.5, 0.4, 0.125, 0.03125) times Scale is an integer
Scale == 160
Sentinel == (-999) * Scale

\* variant without the test for the unavailable marker
decode_temp_byte_unchecked(byte) == (byte - 40) * Scale

decode_temp_byte(byte) ==
    IF byte = 255 THEN Sentinel ELSE (byte - 40) * Scale

decode_temp_16bit_le(low, high) ==
    IF high = 255 /\ low = 255 THEN Sentinel
    ELSE LET val == BitOr(Shl(high, 8) % 65536, low)
         IN  val * (Scale \div 32) - 273 * Scale

decode_pressure_2kpa(byte) ==
    IF byte = 255 THEN Sentinel ELSE byte * 2 * Scale

\* variant with the 2 kPa/bit scale
decode_pressure_4kpa_as_2kpa(byte) ==
    IF byte = 255 THEN Sentinel ELSE byte * 2 * Scale

decode_pressure_4kpa(byte) ==
    IF byte = 255 THEN Sentinel ELSE byte * 4 * Scale

decode_baro_pressure(byte) ==
    IF byte = 255 THEN Sentinel ELSE byte * (Scale \div 2)

\* The humidity reading is kept in units of 2^-21: (float)byte * 0.4f is a
\* single-precision product, not a multiple of 1/160, and -999.0 in a finer
\* unit would leave the 32-bit range.
HumidityScale == 2097152
HumiditySentinel == (-999) * HumidityScale

\* the literal 0.4f is Float_0_4_Mantissa * 2^-25 (bit pattern 0x3ECCCCCD)
Float_0_4_Mantissa == 13421773

\* floor and remainder of byte * Float_0_4_Mantissa / 2^k, computed without
\* leaving the 32-bit range
MulShiftQuot(byte, k) ==
    byte * (Float_0_4_Mantissa \div (2 ^ k))
        + (byte * (Float_0_4_Mantissa % (2 ^ k))) \div (2 ^ k)
MulShiftRem(byte, k) == (byte * (Float_0_4_Mantissa % (2 ^ k))) % (2 ^ k)

\* the number of low bits the product loses: the least k, searched downwards
\* from j, for which the quotient is below 2^24
RECURSIVE DroppedBits(_, _)
DroppedBits(byte, j) ==
    IF j = 0 THEN 0
    ELSE IF MulShiftQuot(byte, j - 1) >= 2 ^ 24 THEN j
    ELSE DroppedBits(byte, j - 1)

\* (float)byte * 0.4f in units of 2^-25: the exact product rounded to 24
\* significant bits, to nearest, ties to even; returned as [m, k] with value
\* m * 2^k
float_mul_0_4(byte) ==
    IF byte = 0 THEN [m |-> 0, k |-> 0]
    ELSE LET k == DroppedBits(byte, 8)
             q == MulShiftQuot(byte, k)
             r == MulShiftRem(byte, k)
             up == 2 * r > 2 ^ k \/ (2 * r = 2 ^ k /\ q % 2 = 1)
         IN  [m |-> IF up THEN q + 1 ELSE q, k |-> k]

\* decode_humidity, in units of 2^-21; for the raw values 1..4 and 7..9 the
\* product has bits below 2^-21 and these are not among the payloads used
decode_humidity(byte) ==
    IF byte = 255 THEN HumiditySentinel
    ELSE LET f == float_mul_0_4(byte)
         IN  IF f.k >= 4 THEN f.m * (2 ^ (f.k - 4))
             ELSE f.m \div (2 ^ (4 - f.k))

\* (uint32_t)(ts.tv_sec * 1000 + ts.tv_nsec / 1000000); the times of the model
\* stay below 2^32 ms, where the cast changes nothing
get_time_ms(ts) == ts.tv_sec * 1000 + ts.tv_nsec \div 1000000

\* variant that accepts standard-format frames
FrameAccepted_any_format(fr) ==
    j1939_get_source(fr.id) = OSSM_SOURCE_ADDRESS

\* the two early returns: if (!frame->extended) ...; if (source != OSSM_SOURCE_ADDRESS) ...
FrameAccepted(fr) ==
    /\ fr.extended
    /\ j1939_get_source(fr.id) = OSSM_SOURCE_ADDRESS

\* variant of the switch without the case 65164
CaseOf_without_65164(pgn) ==
    CASE pgn = PGN_AMBIENT_CONDITIONS -> "AMBIENT_CONDITIONS"
      [] pgn = PGN_INLET_EXHAUST      -> "INLET_EXHAUST"
      [] pgn = PGN_ENGINE_TEMP        -> "ENGINE_TEMP"
      [] pgn = PGN_ENGINE_FLUID_PRESS -> "ENGINE_FLUID_PRESS"
      [] pgn = PGN_ENGINE_TEMP_2      -> "ENGINE_TEMP_2"
      [] pgn = PGN_ENGINE_TEMP_3      -> "ENGINE_TEMP_3"
      [] pgn = PGN_TURBO_PRESS        -> "TURBO_PRESS"
      [] OTHER                        -> "default"

\* variant of the switch in which PGN_ENGINE_TEMP_3 takes the case of PGN_ENGINE_TEMP
CaseOf_temp3_as_temp(pgn) ==
    CASE pgn = PGN_AMBIENT_CONDITIONS -> "AMBIENT_CONDITIONS"
      [] pgn = PGN_INLET_EXHAUST      -> "INLET_EXHAUST"
      [] pgn = PGN_ENGINE_TEMP        -> "ENGINE_TEMP"
      [] pgn = PGN_ENGINE_FLUID_PRESS -> "ENGINE_FLUID_PRESS"
      [] pgn = PGN_ENGINE_TEMP_2      -> "ENGINE_TEMP_2"
      [] pgn = PGN_ENGINE_TEMP_3      -> "ENGINE_TEMP"
      [] pgn = PGN_TURBO_PRESS        -> "TURBO_PRESS"
      [] pgn = PGN_SUPPLY_PRESSURE    -> "SUPPLY_PRESSURE"
      [] OTHER                        -> "default"

\* switch (pgn): the case label taken
CaseOf(pgn) ==
    CASE pgn = PGN_AMBIENT_CONDITIONS -> "AMBIENT_CONDITIONS"
      [] pgn = PGN_INLET_EXHAUST      -> "INLET_EXHAUST"
      [] pgn = PGN_ENGINE_TEMP        -> "ENGINE_TEMP"
      [] pgn = PGN_ENGINE_FLUID_PRESS -> "ENGINE_FLUID_PRESS"
      [] pgn = PGN_ENGINE_TEMP_2      -> "ENGINE_TEMP_2"
      [] pgn = PGN_ENGINE_TEMP_3      -> "ENGINE_TEMP_3"
      [] pgn = PGN_TURBO_PRESS        -> "TURBO_PRESS"
      [] pgn = PGN_SUPPLY_PRESSURE    -> "SUPPLY_PRESSURE"
      [] OTHER                        -> "default"

\* variant that writes the sentinel for an unavailable channel
TurboChannel_sentinel(low, high, old) ==
    IF low # 255 \/ high # 255
    THEN BitOr(Shl(high, 8) % 65536, low) * (Scale \div 8)
    ELSE Sentinel

\* case PGN_TURBO_PRESS, one channel: written only if (low != 0xFF || high != 0xFF)
TurboChannel(low, high, old) ==
    IF low # 255 \/ high # 255
    THEN BitOr(Shl(high, 8) % 65536, low) * (Scale \div 8)
    ELSE old

\* variant that decodes the high-resolution boost temperature of bytes 0-1
Case_ENGINE_TEMP_2_decoding(d, data) ==
    [data EXCEPT !.boostTemperatureC = decode_temp_16bit_le(d[2], d[1])]

\* case PGN_ENGINE_TEMP_2: no field is written
Case_ENGINE_TEMP_2(d, data) == data

\* the assignments of each case of the switch; d is the payload, d[1] = d[0] of the code
CaseBody(label, d, data) ==
    CASE label = "AMBIENT_CONDITIONS" ->
            [data EXCEPT !.absoluteBarometricPressurekPa = decode_baro_pressure(d[1]),
                         !.ambientTemperatureC = decode_temp_16bit_le(d[4], d[5]),
                         !.airInletTemperatureC = decode_temp_byte(d[6])]
      [] label = "INLET_EXHAUST" ->
            [data EXCEPT !.boostPressurekPa = decode_pressure_2kpa(d[2]),
                         !.boostTemperatureC = decode_temp_byte(d[3]),
                         !.airInletPressurekPa = decode_pressure_2kpa(d[4]),
                         !.egtTemperatureC = decode_temp_16bit_le(d[6], d[7])]
      [] label = "ENGINE_TEMP" ->
            [data EXCEPT !.coolantTemperatureC = decode_temp_byte(d[1]),
                         !.fuelTemperatureC = decode_temp_byte(d[2]),
                         !.oilTemperatureC = decode_temp_16bit_le(d[3], d[4])]
      [] label = "ENGINE_FLUID_PRESS" ->
            [data EXCEPT !.fuelPressurekPa = decode_pressure_4kpa(d[1]),
                         !.oilPressurekPa = decode_pressure_4kpa(d[4]),
                         !.coolantPressurekPa = decode_pressure_2kpa(d[7])]
      [] label = "ENGINE_TEMP_2" -> Case_ENGINE_TEMP_2(d, data)
      [] label = "ENGINE_TEMP_3" ->
            [data EXCEPT !.cacInletTemperatureC = decode_temp_byte(d[1]),
                         !.transferPipeTemperatureC = decode_temp_byte(d[2])]
      [] label = "TURBO_PRESS" ->
            [data EXCEPT !.cacInletPressurekPa = TurboChannel(d[1], d[2], @),
                         !.transferPipePressurekPa = TurboChannel(d[3], d[4], @)]
      [] label = "SUPPLY_PRESSURE" ->
            [data EXCEPT !.engineBayTemperatureC = decode_temp_byte(d[1]),
                         !.humidity = decode_humidity(d[7])]
      [] OTHER -> data

\* variant that refreshes the timestamp on every call
Stamp_always(data, upd, ts) ==
    [data EXCEPT !.lastUpdateMs = get_time_ms(ts)]

\* if (updated) data->lastUpdateMs = get_time_ms();
Stamp(data, upd, ts) ==
    IF upd THEN [data EXCEPT !.lastUpdateMs = get_time_ms(ts)] ELSE data

\* j1939_parse_message on frame fr and snapshot data, the clock showing ts:
\* the snapshot after the call and the value returned
j1939_parse_message(fr, data, ts) ==
    IF ~FrameAccepted(fr)
    THEN [data |-> data, updated |-> FALSE]
    ELSE LET label == CaseOf(j1939_get_pgn(fr.id))
             upd   == label # "default"
         IN  [data    |-> Stamp(CaseBody(label, fr.data, data), upd, ts),
              updated |-> upd]

-----------------------------------------------------------------------------
(* Input domains of the model *)

\* payloads of telemetry frames: all bytes unavailable, all bytes valid, and
\* for PGN_TURBO_PRESS one channel unavailable and the other valid
AllFF == <<255, 255, 255, 255, 255, 255, 255, 255>>
Valid8 == <<200, 100, 16, 39, 32, 60, 25, 7>>
SecondOnly == <<255, 255, 16, 0, 255, 255, 255, 255>>
FirstOnly == <<32, 3, 255, 255, 255, 255, 255, 255>>

TelemetryId(pgn) == j1939_build_id(pgn, 6, OSSM_SOURCE_ADDRESS)

Frame8(id, ext, payload) ==
    [id |-> id, extended |-> ext, len |-> 8, data |-> payload]

\* frames the main loop may receive and hand to j1939_parse_message
AcceptedFrames ==
    { Frame8(TelemetryId(p), TRUE, d) :
        p \in {PGN_AMBIENT_CONDITIONS, PGN_INLET_EXHAUST, PGN_ENGINE_TEMP,
               PGN_ENGINE_FLUID_PRESS, PGN_ENGINE_TEMP_2, PGN_ENGINE_TEMP_3,
               PGN_SUPPLY_PRESSURE},
        d \in {AllFF, Valid8} }
    \cup { Frame8(TelemetryId(PGN_TURBO_PRESS), TRUE, d) :
             d \in {AllFF, SecondOnly, FirstOnly} }

UnknownPgnFrames ==
    { Frame8(TelemetryId(PGN_OSSM_RESPONSE), TRUE, Valid8),
      Frame8(TelemetryId(PGN_OSSM_COMMAND), TRUE, Valid8),
      Frame8(TelemetryId(61429), TRUE, Valid8) }

RejectedFrames ==
    { Frame8(TelemetryId(PGN_AMBIENT_CONDITIONS), FALSE, Valid8),
      Frame8(j1939_build_id(PGN_ENGINE_TEMP, 6, 0), TRUE, Valid8),
      Frame8(j1939_build_id(PGN_TURBO_PRESS, 6, 148), FALSE, SecondOnly) }

DecodeFrames == AcceptedFrames \cup UnknownPgnFrames \cup RejectedFrames

\* readings of CLOCK_MONOTONIC, in increasing order
ClockTimes ==
    << [tv_sec |-> 5, tv_nsec |-> 0],
       [tv_sec |-> 5, tv_nsec |-> 999999],
       [tv_sec |-> 5, tv_nsec |-> 1000000],
       [tv_sec |-> 7, tv_nsec |-> 250000000] >>

\* (spn, enable, input) triples handed to j1939_enable_spn
EnableArgs ==
    { [spn |-> 175,   enable |-> TRUE,  input |-> 3,   code |-> 0],
      [spn |-> 4660,  enable |-> FALSE, input |-> 255, code |-> 0],
      [spn |-> 65535, enable |-> TRUE,  input |-> 0,   code |-> 0],
      [spn |-> 1131,  enable |-> FALSE, input |-> 8,   code |-> 0] }

\* (input, preset) pairs handed to j1939_set_ntc_preset
NtcArgs ==
    { [spn |-> 0, enable |-> FALSE, input |-> 1, code |-> 0],
      [spn |-> 0, enable |-> FALSE, input |-> 8, code |-> 2] }

\* (input, preset) pairs handed to j1939_set_pressure_preset
PressureArgs ==
    { [spn |-> 0, enable |-> FALSE, input |-> 1, code |-> 15],
      [spn |-> 0, enable |-> FALSE, input |-> 7, code |-> 20] }

\* thermocouple types handed to j1939_set_tc_type
TcArgs ==
    { [spn |-> 0, enable |-> FALSE, input |-> 0, code |-> 0],
      [spn |-> 0, enable |-> FALSE, input |-> 0, code |-> 7] }

NoArgs == [spn |-> 0, enable |-> FALSE, input |-> 0, code |-> 0]

\* error bytes (payload byte 1) the bus may carry in a response frame
ErrBytes == {0, 3, 255}

\* 6-byte result blocks (payload bytes 2..7) the bus may carry
BlockA == <<0, 175, 255, 255, 18, 52>>
BlockB == <<4, 107, 0, 110, 255, 254>>
ResultBlocks == { BlockA, BlockB }

\* contents the caller's TSpnAssignments may hold before the call
ZeroTable == [tempSpns |-> [i \in 1..8 |-> 0], presSpns |-> [i \in 1..7 |-> 0]]
StaleTables ==
    { ZeroTable,
      [tempSpns |-> [i \in 1..8 |-> 110], presSpns |-> [i \in 1..7 |-> 100]] }

\* contents of a caller's response[6] / len before check_response writes them
StaleResponse == <<170, 170, 170, 170, 170, 170>>

-----------------------------------------------------------------------------
(* Transport: socketcan.c *)

\* the two outcomes of socketcan_send: 0 (write wrote a whole frame) or -1
SendResults == {0, -1}

NoCf == [can_id |-> 0, eff |-> FALSE, can_dlc |-> 0, data |-> <<>>]

\* socketcan_receive with a whole struct can_frame cf read from the socket:
\* id, extended and len are overwritten, and only can_dlc data bytes are copied
socketcan_receive(fr, cf) ==
    [id       |-> Mask(cf.can_id, 29),
     extended |-> cf.eff,
     len      |-> cf.can_dlc,
     data     |-> [i \in 1..8 |-> IF i <= cf.can_dlc THEN cf.data[i] ELSE fr.data[i]]]

RespId == j1939_build_id(PGN_OSSM_RESPONSE, 6, OSSM_SOURCE_ADDRESS)
WrongSourceId == j1939_build_id(PGN_OSSM_RESPONSE, 6, 0)
WrongPgnId == j1939_build_id(PGN_OSSM_COMMAND, 6, OSSM_SOURCE_ADDRESS)

OtherCmd(cmd) == IF cmd = CMD_QUERY THEN CMD_ENABLE_SPN ELSE CMD_QUERY

Cf8(id, b0, b1, blk) ==
    [can_id |-> id, eff |-> TRUE, can_dlc |-> 8, data |-> <<b0, b1>> \o blk]

\* a struct can_frame without CAN_EFF_FLAG whose can_id has the 29 bits of
\* the response identifier (socketcan_receive masks can_id with CAN_EFF_MASK
\* whatever the flag is), and one with an 11-bit identifier
StdCf(cmd) ==
    [can_id |-> RespId, eff |-> FALSE, can_dlc |-> 8, data |-> <<cmd, 0>> \o BlockA]
Std11Cf(cmd) ==
    [can_id |-> 405, eff |-> FALSE, can_dlc |-> 8, data |-> <<cmd, 0>> \o BlockA]

\* struct can_frames the bus may deliver while a command cmd is outstanding
BusFrames(cmd) ==
    { Cf8(RespId, cmd, e, b) : e \in ErrBytes, b \in ResultBlocks }
    \cup { StdCf(cmd), Std11Cf(cmd) }
    \cup { Cf8(RespId, OtherCmd(cmd), 0, BlockA),
           Cf8(WrongSourceId, cmd, 0, BlockA),
           Cf8(WrongPgnId, cmd, 0, BlockA),
           [can_id |-> RespId, eff |-> TRUE, can_dlc |-> 0, data |-> <<>>],
           [can_id |-> RespId, eff |-> TRUE, can_dlc |-> 1, data |-> <<cmd>>] }

\* outcomes of one socketcan_receive call: -1 (error), 0 (no data), 1 (frame)
NoData == [res |-> 0, cf |-> NoCf]
RxError == [res |-> -1, cf |-> NoCf]
Rx(c) == [res |-> 1, cf |-> c]

RxEvents(cmd) ==
    { RxError, NoData } \cup { Rx(c) : c \in BusFrames(cmd) }

\* frames that pass or may pass the tests of check_response for cmd
Candidates(cmd) ==
    { Cf8(RespId, cmd, e, b) : e \in ErrBytes, b \in ResultBlocks }
    \cup { StdCf(cmd), Std11Cf(cmd) }
    \cup { [can_id |-> RespId, eff |-> TRUE, can_dlc |-> 0, data |-> <<>>],
           [can_id |-> RespId, eff |-> TRUE, can_dlc |-> 1, data |-> <<cmd>>] }

\* receive outcomes that carry no full response to cmd
Noise(cmd) ==
    { NoData, RxError,
      Rx(Cf8(RespId, OtherCmd(cmd), 0, BlockA)),
      Rx(Cf8(WrongSourceId, cmd, 0, BlockA)),
      Rx(Cf8(WrongPgnId, cmd, 0, BlockA)),
      Rx([can_id |-> RespId, eff |-> TRUE, can_dlc |-> 0, data |-> <<>>]) }

\* a script of receive outcomes for one check_response call: the first n calls
\* answer `lead`, call n+1 answers `ev`, every later call finds no data.
\* Scripts: a candidate after at most MaxLead other outcomes; the same outcome
\* at every poll; a response at the very last poll.
MaxLead == 1
PollCount == timeout_ms \div poll_ms

Scripts(cmd) ==
    { [lead |-> l, n |-> k, ev |-> Rx(c)] :
         l \in Noise(cmd), k \in 0..MaxLead, c \in Candidates(cmd) }
    \cup { [lead |-> l, n |-> PollCount, ev |-> NoData] : l \in Noise(cmd) }
    \cup { [lead |-> NoData, n |-> PollCount - 1, ev |-> Rx(Cf8(RespId, cmd, e, BlockA))] :
             e \in ErrBytes }

EventAt(sc, i) ==
    IF i <= sc.n THEN sc.lead ELSE IF i = sc.n + 1 THEN sc.ev ELSE NoData

\* what the uninitialised local frame of check_response may hold on entry:
\* a frame that an earlier call left on the stack
UninitFrames(cmd) ==
    { [id |-> RespId, extended |-> TRUE, len |-> 8, data |-> <<cmd, 0>> \o BlockA],
      [id |-> WrongPgnId, extended |-> TRUE, len |-> 8,
       data |-> <<OtherCmd(cmd), 3>> \o BlockB] }

NoFrame == [id |-> 0, extended |-> FALSE, len |-> 0, data |-> [i \in 1..8 |-> 0]]

-----------------------------------------------------------------------------
(* Command/response engine: j1939.c *)

\* variant of j1939_send_command that pads the payload with 0x00
j1939_send_command_zero_pad(cmd, params, param_len) ==
    LET n == IF param_len > 7 THEN 7 ELSE param_len
    IN  [id       |-> j1939_build_id(PGN_OSSM_COMMAND, 6, 0),
         extended |-> TRUE,
         len      |-> 8,
         data     |-> [i \in 1..8 |->
                         IF i = 1 THEN cmd % 256
                         ELSE IF params # <<>> /\ param_len > 0 /\ i - 1 <= n
                              THEN params[i - 1]
                              ELSE 0]]

\* j1939_send_command: the frame handed to socketcan_send
j1939_send_command(cmd, params, param_len) ==
    LET n == IF param_len > 7 THEN 7 ELSE param_len
    IN  [id       |-> j1939_build_id(PGN_OSSM_COMMAND, 6, 0),
         extended |-> TRUE,
         len      |-> 8,
         data     |-> [i \in 1..8 |->
                         IF i = 1 THEN cmd % 256
                         ELSE IF params # <<>> /\ param_len > 0 /\ i - 1 <= n
                              THEN params[i - 1]
                              ELSE 255]]

\* variant of the loop guard that admits one more iteration
LoopGuard_inclusive(e) == e <= timeout_ms

\* variant of the loop guard with one more poll interval
LoopGuard_one_more_interval(e) == e < timeout_ms + poll_ms

\* while (elapsed < timeout_ms)
LoopGuard(e) == e < timeout_ms

\* if (result > 0): a frame was received and is examined
FrameReceived(res) == res > 0

\* variant of the tests that accepts a response from any source address
ResponseMatches_any_source(fr, expected_cmd) ==
    /\ j1939_get_pgn(fr.id) = PGN_OSSM_RESPONSE
    /\ fr.data[1] = expected_cmd

\* variant that tests the command byte only
ResponseMatches_cmd_only(fr, expected_cmd) ==
    fr.data[1] = expected_cmd

\* the three tests of check_response on a received frame
ResponseMatches(fr, expected_cmd) ==
    /\ j1939_get_pgn(fr.id) = PGN_OSSM_RESPONSE
    /\ j1939_get_source(fr.id) = OSSM_SOURCE_ADDRESS
    /\ fr.data[1] = expected_cmd

\* variant that reads the error byte as a signed char
ErrorOf_signed(fr) == IF fr.data[2] > 127 THEN fr.data[2] - 256 ELSE fr.data[2]

\* variant that maps every byte outside the taxonomy to unknown-command (1)
ErrorOf_renumbered(fr) == IF fr.data[2] > ERR_INVALID_PRESET THEN 1 ELSE fr.data[2]

\* uint8_t error = frame.data[1]; return error;  (uint8_t to int)
ErrorOf(fr) == fr.data[2]

\* variant that copies from &frame.data[1]
ResultBlockOf_from_byte1(fr) == [i \in 1..6 |-> fr.data[i + 1]]

\* memcpy(response_data, &frame.data[2], 6)
ResultBlockOf(fr) == [i \in 1..6 |-> fr.data[i + 2]]

\* variant in which save_config and reset_config carry each other's code
CmdOf_save_reset_swapped(op) ==
    CASE op = "enable_spn"           -> CMD_ENABLE_SPN
      [] op = "set_ntc_preset"       -> CMD_NTC_PRESET
      [] op = "set_pressure_preset"  -> CMD_PRESSURE_PRESET
      [] op = "set_tc_type"          -> CMD_SET_TC_TYPE
      [] op = "query_config"         -> CMD_QUERY
      [] op = "query_spn_assignments" -> CMD_QUERY
      [] op = "save_config"          -> CMD_RESET
      [] op = "reset_config"         -> CMD_SAVE

\* the command byte, parameter block and parameter length of each operation
CmdOf(op) ==
    CASE op = "enable_spn"           -> CMD_ENABLE_SPN
      [] op = "set_ntc_preset"       -> CMD_NTC_PRESET
      [] op = "set_pressure_preset"  -> CMD_PRESSURE_PRESET
      [] op = "set_tc_type"          -> CMD_SET_TC_TYPE
      [] op = "query_config"         -> CMD_QUERY
      [] op = "query_spn_assignments" -> CMD_QUERY
      [] op = "save_config"          -> CMD_SAVE
      [] op = "reset_config"         -> CMD_RESET

\* variant of ParamsOf whose SPN sub-queries carry the sub-index before the type
ParamsOf_index_first(op, a, qt, sq) ==
    CASE op = "enable_spn" ->
            << Mask(Shr(a.spn, 8), 8), Mask(a.spn, 8),
               IF a.enable THEN 1 ELSE 0, a.input >>
      [] op = "set_ntc_preset"        -> << a.input, a.code % 256 >>
      [] op = "set_pressure_preset"   -> << a.input, a.code % 256 >>
      [] op = "set_tc_type"           -> << a.code >>
      [] op = "query_config"          -> << 0 >>
      [] op = "query_spn_assignments" -> << sq, qt >>
      [] op = "save_config"           -> << >>
      [] op = "reset_config"          -> << >>

ParamsOf(op, a, qt, sq) ==
    CASE op = "enable_spn" ->
            << Mask(Shr(a.spn, 8), 8), Mask(a.spn, 8),
               IF a.enable THEN 1 ELSE 0, a.input >>
      [] op = "set_ntc_preset"        -> << a.input, a.code % 256 >>
      [] op = "set_pressure_preset"   -> << a.input, a.code % 256 >>
      [] op = "set_tc_type"           -> << a.code >>
      [] op = "query_config"          -> << 0 >>
      [] op = "query_spn_assignments" -> << qt, sq >>
      [] op = "save_config"           -> << >>
      [] op = "reset_config"          -> << >>

\* variant in which reset_config waits for the response to CMD_SAVE
ExpectedCmdOf_reset_as_save(op) ==
    CASE op = "enable_spn"           -> CMD_ENABLE_SPN
      [] op = "set_ntc_preset"       -> CMD_NTC_PRESET
      [] op = "set_pressure_preset"  -> CMD_PRESSURE_PRESET
      [] op = "set_tc_type"          -> CMD_SET_TC_TYPE
      [] op = "query_config"         -> CMD_QUERY
      [] op = "query_spn_assignments" -> CMD_QUERY
      [] op = "save_config"          -> CMD_SAVE
      [] op = "reset_config"         -> CMD_SAVE

\* the expected_cmd each operation passes to j1939_check_response
ExpectedCmdOf(op) ==
    CASE op = "enable_spn"           -> CMD_ENABLE_SPN
      [] op = "set_ntc_preset"       -> CMD_NTC_PRESET
      [] op = "set_pressure_preset"  -> CMD_PRESSURE_PRESET
      [] op = "set_tc_type"          -> CMD_SET_TC_TYPE
      [] op = "query_config"         -> CMD_QUERY
      [] op = "query_spn_assignments" -> CMD_QUERY
      [] op = "save_config"          -> CMD_SAVE
      [] op = "reset_config"         -> CMD_RESET

\* operations that pass response buffers to check_response (the others pass NULL)
HasBuffers(op) == op \in {"query_config", "query_spn_assignments"}

SimpleOps == {"enable_spn", "set_ntc_preset", "set_pressure_preset",
              "set_tc_type", "save_config", "reset_config"}

\* variant that never sees a failed send
SendFailed_ignored(r) == r > 0

\* if (j1939_send_command(...) < 0) return -1;
SendFailed(r) == r < 0

\* variant that sends the command again after a timeout
AfterSimple_retry(res) == IF res = -1 THEN "send" ELSE "ret"

\* return j1939_check_response(...): where control goes with its value res
AfterSimple(res) == "ret"

\* query_config: if (result == 0 && state) { ... } -- the four fields unpacked
\* variant that unpacks the response buffer whatever the result is
UnpackConfig_always(state, res, resp) ==
    [state EXCEPT !.tempCount = resp[1],
                  !.pressureCount = resp[2],
                  !.egtEnabled = (resp[3] # 0),
                  !.bme280Enabled = (resp[4] # 0)]

UnpackConfig(state, res, resp) ==
    IF res = 0
    THEN [state EXCEPT !.tempCount = resp[1],
                       !.pressureCount = resp[2],
                       !.egtEnabled = (resp[3] # 0),
                       !.bme280Enabled = (resp[4] # 0)]
    ELSE state

\* variant that clears the temperature array only
MemsetTable_temp_only(tbl) == [tbl EXCEPT !.tempSpns = [i \in 1..8 |-> 0]]

\* query_spn_assignments: memset(assignments, 0, sizeof(TSpnAssignments))
MemsetTable(tbl) == ZeroTable

\* variant that assembles the SPN low byte first
SpnAt_little_endian(resp, i) == BitOr(Shl(resp[i * 2 + 2], 8) % 65536, resp[i * 2 + 1])

\* uint16_t spn = ((uint16_t)response[i * 2] << 8) | response[i * 2 + 1]
SpnAt(resp, i) == BitOr(Shl(resp[i * 2 + 1], 8) % 65536, resp[i * 2 + 2])

\* the inner for-loop: three SPNs of sub-query sq stored into an array of
\* `slots` entries (8 temperature, 7 pressure); 0xFFFF is not stored
StoreSpns(arr, slots, sq, resp) ==
    [k \in 1..slots |->
        LET idx == k - 1
            i   == idx - sq * 3
        IN  IF i \in 0..2 /\ idx < slots /\ SpnAt(resp, i) # 65535
            THEN SpnAt(resp, i)
            ELSE arr[k]]

\* variant that lets a timed-out sub-query pass
SubQueryFailed_protocol_only(res) == res > 0

\* variant that lets a protocol error pass
SubQueryFailed_timeout_only(res) == res < 0

\* if (result != 0) return result;
SubQueryFailed(res) == res # 0

\* variant of the loop body that returns -1 as soon as a receive fails
PollStep_abort_on_error(s, ev, expected_cmd, hasBuf) ==
    LET fr == IF ev.res > 0 THEN socketcan_receive(s.frame, ev.cf) ELSE s.frame
    IN  IF ev.res < 0
        THEN [s EXCEPT !.rxRes = ev.res,
                       !.polls = @ + 1,
                       !.rxErr = TRUE,
                       !.result = -1,
                       !.done = TRUE]
        ELSE IF FrameReceived(ev.res) /\ ResponseMatches(fr, expected_cmd)
        THEN [s EXCEPT !.frame = fr,
                       !.rxRes = ev.res,
                       !.polls = @ + 1,
                       !.result = ErrorOf(fr),
                       !.respLen = IF hasBuf THEN 6 ELSE @,
                       !.response = IF hasBuf THEN ResultBlockOf(fr) ELSE @,
                       !.matched = TRUE,
                       !.done = TRUE]
        ELSE [s EXCEPT !.frame = fr,
                       !.rxRes = ev.res,
                       !.polls = @ + 1,
                       !.slept = @ + poll_ms,
                       !.elapsed = @ + poll_ms]

\* one iteration of the polling loop with receive outcome ev
PollStep(s, ev, expected_cmd, hasBuf) ==
    LET fr == IF ev.res > 0 THEN socketcan_receive(s.frame, ev.cf) ELSE s.frame
    IN  IF FrameReceived(ev.res) /\ ResponseMatches(fr, expected_cmd)
        THEN [s EXCEPT !.frame = fr,
                       !.rxRes = ev.res,
                       !.polls = @ + 1,
                       !.result = ErrorOf(fr),
                       !.respLen = IF hasBuf THEN 6 ELSE @,
                       !.response = IF hasBuf THEN ResultBlockOf(fr) ELSE @,
                       !.matched = TRUE,
                       !.done = TRUE]
        ELSE [s EXCEPT !.frame = fr,
                       !.rxRes = ev.res,
                       !.polls = @ + 1,
                       !.rxErr = (@ \/ ev.res < 0),
                       !.slept = @ + poll_ms,
                       !.elapsed = @ + poll_ms]

\* the loop exit: return -1
TimeoutStep(s) == [s EXCEPT !.result = -1, !.done = TRUE]

\* one pass through the loop head: leave if a match returned, return -1 if the
\* guard fails, else run one iteration, the i-th receive answering EventAt(sc, i)
LoopStep(s, sc, expected_cmd, hasBuf) ==
    IF s.done THEN s
    ELSE IF ~LoopGuard(s.elapsed) THEN TimeoutStep(s)
    ELSE PollStep(s, EventAt(sc, s.polls + 1), expected_cmd, hasBuf)

\* n passes through the loop head (halved, to keep the evaluation shallow)
RECURSIVE LoopSteps(_, _, _, _, _)
LoopSteps(s, n, sc, expected_cmd, hasBuf) ==
    IF n = 0 \/ s.done THEN s
    ELSE IF n = 1 THEN LoopStep(s, sc, expected_cmd, hasBuf)
    ELSE LET h == n \div 2
             m == LoopSteps(s, h, sc, expected_cmd, hasBuf)
         IN  LoopSteps(m, n - h, sc, expected_cmd, hasBuf)

\* the whole loop; MaxPasses passes are more than any call needs
MaxPasses == 256
RunLoop(s, sc, expected_cmd, hasBuf) == LoopSteps(s, MaxPasses, sc, expected_cmd, hasBuf)

-----------------------------------------------------------------------------
(* State *)

InitConfig ==
    [tempCount |-> 0, pressureCount |-> 0, egtEnabled |-> FALSE,
     bme280Enabled |-> FALSE, sourceAddress |-> 0, thermocoupleType |-> 0]

\* main: memset(&sensor_data, 0, ...) and the nineteen readings set to -999.0f
InitSensorData ==
    [oilTemperatureC |-> Sentinel, coolantTemperatureC |-> Sentinel,
     fuelTemperatureC |-> Sentinel, boostTemperatureC |-> Sentinel,
     cacInletTemperatureC |-> Sentinel, transferPipeTemperatureC |-> Sentinel,
     airInletTemperatureC |-> Sentinel, engineBayTemperatureC |-> Sentinel,
     ambientTemperatureC |-> Sentinel, egtTemperatureC |-> Sentinel,
     oilPressurekPa |-> Sentinel, coolantPressurekPa |-> Sentinel,
     fuelPressurekPa |-> Sentinel, boostPressurekPa |-> Sentinel,
     airInletPressurekPa |-> Sentinel, cacInletPressurekPa |-> Sentinel,
     transferPipePressurekPa |-> Sentinel,
     absoluteBarometricPressurekPa |-> Sentinel, humidity |-> HumiditySentinel,
     lastUpdateMs |-> 0]

InitProgram ==
    /\ pc = "main"
    /\ opName = "none"
    /\ args = NoArgs
    /\ qtype = 0
    /\ subQuery = 0
    /\ tx = <<>>
    /\ sendRes = 0
    /\ frame = NoFrame
    /\ elapsed = 0
    /\ slept = 0
    /\ polls = 0
    /\ results = <<>>
    /\ rxRes = 0
    /\ checked = <<>>
    /\ blocks = <<>>
    /\ matched = FALSE
    /\ rxErr = FALSE
    /\ response = StaleResponse
    /\ respLen = 0
    /\ result = 0
    /\ ret = 0
    /\ config_state = InitConfig
    /\ assignments = ZeroTable
    /\ entryTable = ZeroTable
    /\ sensor_data = InitSensorData
    /\ clock = 1
    /\ rxFrame = NoFrame
    /\ updated = FALSE
    /\ dialog = "none"
    /\ category = 0
    /\ selection = 0
    /\ input = 0
    /\ preset = 0
    /\ dlgRet = 0
    /\ rxQueue = <<>>
    /\ awaiting = {}
    /\ sendSeq = 0
    /\ origin = 0
    /\ key = "none"
    /\ err = <<>>
    /\ screen = "none"
    /\ shownTable = <<>>
    /\ spn = 0
    /\ enable = TRUE

Init ==
    /\ InitProgram
    /\ codecIn = NoCodecIn
    /\ codecOut = NoCodecOut

\* the locals of a high-level operation and the observation counters at entry
EnterLocals(op, a) ==
    /\ pc' = "send"
    /\ opName' = op
    /\ args' = a
    /\ tx' = <<>>
    /\ sendRes' = 0
    /\ frame' = NoFrame
    /\ elapsed' = 0
    /\ slept' = 0
    /\ polls' = 0
    /\ results' = <<>>
    /\ rxRes' = 0
    /\ checked' = <<>>
    /\ blocks' = <<>>
    /\ matched' = FALSE
    /\ rxErr' = FALSE
    /\ response' = StaleResponse
    /\ respLen' = 0
    /\ result' = 0
    /\ ret' = 0

\* entry of a high-level operation from the main loop
Enter(op, a) ==
    /\ pc = "main"
    /\ EnterLocals(op, a)
    /\ UNCHANGED config_state
    /\ UNCHANGED <<decodeVars, codecVars, busVars, queryVars, spnVars>>

Call_enable_spn ==
    \E a \in EnableArgs :
        /\ Enter("enable_spn", a)
        /\ UNCHANGED uiVars
        /\ qtype' = 0 /\ subQuery' = 0
        /\ UNCHANGED <<assignments, entryTable>>

Call_set_ntc_preset ==
    \E a \in NtcArgs :
        /\ Enter("set_ntc_preset", a)
        /\ UNCHANGED uiVars
        /\ qtype' = 0 /\ subQuery' = 0
        /\ UNCHANGED <<assignments, entryTable>>

Call_set_pressure_preset ==
    \E a \in PressureArgs :
        /\ Enter("set_pressure_preset", a)
        /\ UNCHANGED uiVars
        /\ qtype' = 0 /\ subQuery' = 0
        /\ UNCHANGED <<assignments, entryTable>>

Call_set_tc_type ==
    \E a \in TcArgs :
        /\ Enter("set_tc_type", a)
        /\ UNCHANGED uiVars
        /\ qtype' = 0 /\ subQuery' = 0
        /\ UNCHANGED <<assignments, entryTable>>

Call_query_config ==
    /\ Enter("query_config", NoArgs)
    /\ UNCHANGED uiVars
    /\ qtype' = 0 /\ subQuery' = 0
    /\ UNCHANGED <<assignments, entryTable>>

Call_save_config ==
    /\ Enter("save_config", NoArgs)
    /\ UNCHANGED uiVars
    /\ qtype' = 0 /\ subQuery' = 0
    /\ UNCHANGED <<assignments, entryTable>>

Call_reset_config ==
    /\ Enter("reset_config", NoArgs)
    /\ UNCHANGED uiVars
    /\ qtype' = 0 /\ subQuery' = 0
    /\ UNCHANGED <<assignments, entryTable>>

\* the caller's table holds any stale content; the call starts with the memset
\* and the first temperature sub-query
Call_query_spn_assignments ==
    \E t \in StaleTables :
        /\ Enter("query_spn_assignments", NoArgs)
        /\ UNCHANGED uiVars
        /\ entryTable' = t
        /\ assignments' = MemsetTable(t)
        /\ qtype' = 1 /\ subQuery' = 0

\* j1939_send_command and the test of its return value
SendCommand ==
    /\ pc = "send"
    /\ \E r \in SendResults :
        /\ tx' = Append(tx, j1939_send_command(CmdOf(opName),
                                ParamsOf(opName, args, qtype, subQuery),
                                Len(ParamsOf(opName, args, qtype, subQuery))))
        /\ sendRes' = r
        /\ slept' = 0
        /\ polls' = 0
        /\ matched' = FALSE
        /\ rxErr' = FALSE
        /\ rxRes' = 0
        /\ IF SendFailed(r)
           THEN pc' = "ret" /\ ret' = -1
           ELSE pc' = "check" /\ ret' = ret
    /\ UNCHANGED <<opName, args, qtype, subQuery, frame, elapsed, results, checked, blocks,
                   response, respLen, result, config_state, assignments, entryTable>>
    /\ UNCHANGED <<decodeVars, codecVars, uiVars, busVars, queryVars, spnVars>>

\* the locals of check_response on entry, after usleep(50000)
EntryState(uninit) ==
    [frame |-> uninit, elapsed |-> 0, slept |-> slept + grace_ms, polls |-> polls,
     rxRes |-> 0, rxErr |-> rxErr, matched |-> matched, result |-> result,
     response |-> response, respLen |-> respLen, done |-> FALSE]

CurrentState ==
    [frame |-> frame, elapsed |-> elapsed, slept |-> slept, polls |-> polls,
     rxRes |-> rxRes, rxErr |-> rxErr, matched |-> matched, result |-> result,
     response |-> response, respLen |-> respLen, done |-> FALSE]

Store(s) ==
    /\ frame' = s.frame
    /\ elapsed' = s.elapsed
    /\ slept' = s.slept
    /\ polls' = s.polls
    /\ rxRes' = s.rxRes
    /\ rxErr' = s.rxErr
    /\ matched' = s.matched
    /\ result' = s.result
    /\ response' = s.response
    /\ respLen' = s.respLen
    /\ pc' = (IF s.done THEN "cont" ELSE "poll")
    /\ results' = (IF s.done THEN Append(results, s.result) ELSE results)

\* a whole call of j1939_check_response, the bus following one script
CheckResponse ==
    /\ pc = "check"
    /\ checked' = Append(checked, ExpectedCmdOf(opName))
    /\ \E u \in UninitFrames(ExpectedCmdOf(opName)), sc \in Scripts(ExpectedCmdOf(opName)) :
          Store(RunLoop(EntryState(u), sc, ExpectedCmdOf(opName), HasBuffers(opName)))
    /\ UNCHANGED <<opName, args, qtype, subQuery, tx, sendRes, ret, blocks,
                   config_state, assignments, entryTable>>
    /\ UNCHANGED <<decodeVars, codecVars, uiVars, busVars, queryVars, spnVars>>

\* entry of j1939_check_response: locals and usleep(50000)
CheckEnter ==
    /\ pc = "check"
    /\ checked' = Append(checked, ExpectedCmdOf(opName))
    /\ \E u \in UninitFrames(ExpectedCmdOf(opName)) : Store(EntryState(u))
    /\ UNCHANGED <<opName, args, qtype, subQuery, tx, sendRes, ret, blocks,
                   config_state, assignments, entryTable>>
    /\ UNCHANGED <<decodeVars, codecVars, uiVars, busVars, queryVars, spnVars>>

\* one iteration of the polling loop, the bus delivering any event
Poll ==
    /\ pc = "poll"
    /\ LoopGuard(elapsed)
    /\ \E ev \in RxEvents(ExpectedCmdOf(opName)) :
          Store(PollStep(CurrentState, ev, ExpectedCmdOf(opName), HasBuffers(opName)))
    /\ UNCHANGED <<opName, args, qtype, subQuery, tx, sendRes, ret, checked, blocks,
                   config_state, assignments, entryTable>>
    /\ UNCHANGED <<decodeVars, codecVars, uiVars, busVars, queryVars, spnVars>>

\* the loop ends without a match: return -1
Timeout ==
    /\ pc = "poll"
    /\ ~LoopGuard(elapsed)
    /\ Store(TimeoutStep(CurrentState))
    /\ UNCHANGED <<opName, args, qtype, subQuery, tx, sendRes, ret, checked, blocks,
                   config_state, assignments, entryTable>>
    /\ UNCHANGED <<decodeVars, codecVars, uiVars, busVars, queryVars, spnVars>>

\* enable_spn, set_*_preset, set_tc_type, save, reset: return check_response(...)
ReturnSimple ==
    /\ pc = "cont"
    /\ opName \in SimpleOps
    /\ pc' = AfterSimple(result)
    /\ ret' = (IF pc' = "ret" THEN result ELSE ret)
    /\ UNCHANGED <<opName, args, qtype, subQuery, tx, sendRes, frame, elapsed, slept,
                   polls, results, rxRes, checked, blocks, matched, rxErr, response, respLen,
                   result, config_state, assignments, entryTable>>
    /\ UNCHANGED <<decodeVars, codecVars, uiVars, busVars, queryVars, spnVars>>

\* query_config: unpack on success, return result
ReturnQueryConfig ==
    /\ pc = "cont"
    /\ opName = "query_config"
    /\ config_state' = UnpackConfig(config_state, result, response)
    /\ ret' = result
    /\ pc' = "ret"
    /\ UNCHANGED <<opName, args, qtype, subQuery, tx, sendRes, frame, elapsed, slept,
                   polls, results, rxRes, checked, blocks, matched, rxErr, response, respLen,
                   result, assignments, entryTable>>
    /\ UNCHANGED <<decodeVars, codecVars, uiVars, busVars, queryVars, spnVars>>

\* query_spn_assignments after a sub-query's check_response
SubQueryDone ==
    /\ pc = "cont"
    /\ opName = "query_spn_assignments"
    /\ IF SubQueryFailed(result)
       THEN /\ ret' = result
            /\ pc' = "ret"
            /\ UNCHANGED <<qtype, subQuery, assignments, blocks>>
       ELSE /\ blocks' = Append(blocks, response)
            /\ assignments' =
                IF qtype = 1
                THEN [assignments EXCEPT
                        !.tempSpns = StoreSpns(assignments.tempSpns, 8, subQuery, response)]
                ELSE [assignments EXCEPT
                        !.presSpns = StoreSpns(assignments.presSpns, 7, subQuery, response)]
            /\ IF subQuery + 1 < 3
               THEN qtype' = qtype /\ subQuery' = subQuery + 1 /\ pc' = "send" /\ ret' = ret
               ELSE IF qtype = 1
                    THEN qtype' = 2 /\ subQuery' = 0 /\ pc' = "send" /\ ret' = ret
                    ELSE qtype' = qtype /\ subQuery' = subQuery + 1
                         /\ pc' = "ret" /\ ret' = 0
    \* the locals of the finished check_response call are gone when the loop goes on
    /\ IF pc' = "send"
       THEN frame' = NoFrame /\ elapsed' = 0
       ELSE UNCHANGED <<frame, elapsed>>
    /\ UNCHANGED <<opName, args, tx, sendRes, slept, polls, results, rxRes, checked,
                   matched, rxErr, response, respLen, result, config_state, entryTable>>
    /\ UNCHANGED <<decodeVars, codecVars, uiVars, busVars, queryVars, spnVars>>

\* the locals of a finished operation are gone; control is in the main loop
LeaveLocals ==
    /\ pc' = "main"
    /\ opName' = "none"
    /\ args' = NoArgs
    /\ qtype' = 0 /\ subQuery' = 0
    /\ tx' = <<>>
    /\ sendRes' = 0
    /\ frame' = NoFrame
    /\ elapsed' = 0 /\ slept' = 0 /\ polls' = 0 /\ results' = <<>> /\ rxRes' = 0
    /\ checked' = <<>> /\ blocks' = <<>>
    /\ matched' = FALSE /\ rxErr' = FALSE
    /\ response' = StaleResponse /\ respLen' = 0
    /\ result' = 0 /\ ret' = 0
    /\ assignments' = ZeroTable /\ entryTable' = ZeroTable

\* the caller takes the return value; control is back in the main loop
Resume ==
    /\ pc = "ret"
    /\ LeaveLocals
    /\ UNCHANGED config_state
    /\ UNCHANGED <<decodeVars, codecVars, uiVars, busVars, queryVars, spnVars>>

\* the eight operations, each check_response call taken as one step
Next ==
    \/ Call_enable_spn
    \/ Call_set_ntc_preset
    \/ Call_set_pressure_preset
    \/ Call_set_tc_type
    \/ Call_query_config
    \/ Call_query_spn_assignments
    \/ Call_save_config
    \/ Call_reset_config
    \/ SendCommand
    \/ CheckResponse
    \/ ReturnSimple
    \/ ReturnQueryConfig
    \/ SubQueryDone
    \/ Resume

Spec == Init /\ [][Next]_vars

\* check_response poll by poll, under enable_spn and query_config
NextPoll ==
    \/ Call_enable_spn
    \/ Call_query_config
    \/ SendCommand
    \/ CheckEnter
    \/ Poll
    \/ Timeout
    \/ ReturnSimple
    \/ ReturnQueryConfig
    \/ Resume

SpecPoll == Init /\ [][NextPoll]_vars

-----------------------------------------------------------------------------
(* The identifier codec applied to arguments of its whole input domain *)

InitCodec ==
    /\ InitProgram
    /\ codecIn \in [id : CodecIds, pgn : CodecPgns,
                     priority : CodecPriorities, source : CodecSources]
    /\ codecOut = NoCodecOut

\* j1939_get_pgn(id)
CallGetPgn ==
    /\ codecOut.pgn = -1
    /\ codecOut' = [codecOut EXCEPT !.pgn = j1939_get_pgn(codecIn.id)]
    /\ UNCHANGED <<pc, codecIn, engineVars, decodeVars, uiVars, busVars, queryVars, spnVars>>

\* j1939_get_source(id)
CallGetSource ==
    /\ codecOut.source = -1
    /\ codecOut' = [codecOut EXCEPT !.source = j1939_get_source(codecIn.id)]
    /\ UNCHANGED <<pc, codecIn, engineVars, decodeVars, uiVars, busVars, queryVars, spnVars>>

\* j1939_build_id(pgn, priority, source)
CallBuildId ==
    /\ codecOut.built = -1
    /\ codecOut' = [codecOut EXCEPT
                       !.built = j1939_build_id(codecIn.pgn, codecIn.priority,
                                                codecIn.source)]
    /\ UNCHANGED <<pc, codecIn, engineVars, decodeVars, uiVars, busVars, queryVars, spnVars>>

\* j1939_build_id(j1939_get_pgn(id) & 0x3FFFF, priority, j1939_get_source(id))
CallRebuild ==
    /\ codecOut.rebuilt = -1
    /\ codecOut' = [codecOut EXCEPT
                       !.rebuilt = j1939_build_id(Mask(j1939_get_pgn(codecIn.id), 18),
                                                  codecIn.priority,
                                                  j1939_get_source(codecIn.id))]
    /\ UNCHANGED <<pc, codecIn, engineVars, decodeVars, uiVars, busVars, queryVars, spnVars>>

NextCodec ==
    \/ CallGetPgn
    \/ CallGetSource
    \/ CallBuildId
    \/ CallRebuild

SpecCodec == InitCodec /\ [][NextCodec]_vars

-----------------------------------------------------------------------------
(* Telemetry path of the main loop *)

\* main loop: socketcan_receive returned > 0 with a frame
Receive ==
    /\ pc = "main"
    /\ \E f \in DecodeFrames : rxFrame' = f
    /\ pc' = "parse"
    /\ UNCHANGED <<sensor_data, clock, updated>>
    /\ UNCHANGED <<engineVars, codecVars, uiVars, busVars, queryVars, spnVars>>

\* main loop: j1939_parse_message(&frame, &sensor_data)
ParseMessage ==
    /\ pc = "parse"
    /\ LET r == j1939_parse_message(rxFrame, sensor_data, ClockTimes[clock])
       IN  /\ sensor_data' = r.data
           /\ updated' = r.updated
    /\ pc' = "main"
    /\ UNCHANGED <<clock, rxFrame>>
    /\ UNCHANGED <<engineVars, codecVars, uiVars, busVars, queryVars, spnVars>>

\* time passes
Tick ==
    /\ clock < Len(ClockTimes)
    /\ clock' = clock + 1
    /\ UNCHANGED <<pc, sensor_data, rxFrame, updated>>
    /\ UNCHANGED <<engineVars, codecVars, uiVars, busVars, queryVars, spnVars>>

NextDecode ==
    \/ Receive
    \/ ParseMessage
    \/ Tick

SpecDecode == Init /\ [][NextDecode]_vars

-----------------------------------------------------------------------------
(* The first telemetry frame after start, over a wider set of payloads *)

\* payloads in which each byte offset carries 0x00, 0xFE, 0xFF and values in
\* between, and each two-byte value has 0xFF in one byte only
ScalePayloads ==
    { Valid8, AllFF,
      << 0, 0, 0, 0, 0, 0, 0, 0 >>,
      << 254, 254, 254, 254, 254, 254, 254, 254 >>,
      << 255, 1, 255, 1, 255, 1, 255, 26 >>,
      << 1, 255, 1, 255, 1, 255, 26, 10 >>,
      << 100, 26, 0, 128, 10, 255, 131, 64 >> }

ScaleFrames ==
    { Frame8(TelemetryId(p), TRUE, d) :
        p \in {PGN_AMBIENT_CONDITIONS, PGN_INLET_EXHAUST, PGN_ENGINE_TEMP,
               PGN_ENGINE_FLUID_PRESS, PGN_ENGINE_TEMP_2, PGN_ENGINE_TEMP_3,
               PGN_TURBO_PRESS, PGN_SUPPLY_PRESSURE},
        d \in ScalePayloads }

\* main loop: socketcan_receive returned > 0 for the first time
ReceiveFirst ==
    /\ pc = "main"
    /\ rxFrame = NoFrame
    /\ \E f \in ScaleFrames : rxFrame' = f
    /\ pc' = "parse"
    /\ UNCHANGED <<sensor_data, clock, updated>>
    /\ UNCHANGED <<engineVars, codecVars, uiVars, busVars, queryVars, spnVars>>

NextScale ==
    \/ ReceiveFirst
    \/ ParseMessage

SpecScale == Init /\ [][NextScale]_vars

-----------------------------------------------------------------------------
(* The socket's receive queue shared by the main loop and the commands *)

\* commands issued in one run, and sizes of the telemetry bursts that reach an
\* empty queue
MaxCommands == 3
BurstSizes == {1, 199, 200}

\* a telemetry frame of the module (PGN 0xFEEE) whose first byte equals CMD_SAVE
Cold8 == << 6, 100, 16, 39, 32, 60, 25, 7 >>
TelemetryCf ==
    [can_id |-> TelemetryId(PGN_ENGINE_TEMP), eff |-> TRUE, can_dlc |-> 8,
     data |-> Cold8, re |-> 0]

\* the module's reply to command frame number n with command code cmd
ReplyCf(n, cmd) ==
    [can_id |-> RespId, eff |-> TRUE, can_dlc |-> 8,
     data |-> <<cmd, 0>> \o BlockA, re |-> n]

Repeat(x, n) == [i \in 1..n |-> x]

\* variant in which a frame that does not match is put back at the end of the queue
QueueStep_requeue(sq, expected_cmd, hasBuf) ==
    IF sq.s.done THEN sq
    ELSE IF ~LoopGuard(sq.s.elapsed) THEN [sq EXCEPT !.s = TimeoutStep(sq.s)]
    ELSE IF sq.q = <<>>
    THEN [sq EXCEPT !.s = PollStep(sq.s, NoData, expected_cmd, hasBuf)]
    ELSE LET t == PollStep(sq.s, Rx(Head(sq.q)), expected_cmd, hasBuf)
         IN  [s |-> t,
              q |-> IF t.matched THEN Tail(sq.q) ELSE Tail(sq.q) \o <<Head(sq.q)>>,
              origin |-> IF t.matched THEN Head(sq.q).re ELSE sq.origin]

\* one pass through the loop head of check_response, read() taking the head
\* of the receive queue (EAGAIN when it is empty)
QueueStep(sq, expected_cmd, hasBuf) ==
    IF sq.s.done THEN sq
    ELSE IF ~LoopGuard(sq.s.elapsed) THEN [sq EXCEPT !.s = TimeoutStep(sq.s)]
    ELSE IF sq.q = <<>>
    THEN [sq EXCEPT !.s = PollStep(sq.s, NoData, expected_cmd, hasBuf)]
    ELSE LET t == PollStep(sq.s, Rx(Head(sq.q)), expected_cmd, hasBuf)
         IN  [s |-> t,
              q |-> Tail(sq.q),
              origin |-> IF t.matched THEN Head(sq.q).re ELSE sq.origin]

RECURSIVE QueueSteps(_, _, _, _)
QueueSteps(sq, n, expected_cmd, hasBuf) ==
    IF n = 0 \/ sq.s.done THEN sq
    ELSE IF n = 1 THEN QueueStep(sq, expected_cmd, hasBuf)
    ELSE LET h == n \div 2
             m == QueueSteps(sq, h, expected_cmd, hasBuf)
         IN  QueueSteps(m, n - h, expected_cmd, hasBuf)

RunQueue(sq, expected_cmd, hasBuf) == QueueSteps(sq, MaxPasses, expected_cmd, hasBuf)

\* F7 pressed: j1939_save_config
Call_save_config_bounded ==
    /\ sendSeq < MaxCommands
    /\ Call_save_config

\* j1939_send_command; a frame that was sent reaches the module
SendCommandBus ==
    /\ pc = "send"
    /\ \E r \in SendResults :
        /\ tx' = Append(tx, j1939_send_command(CmdOf(opName),
                                ParamsOf(opName, args, qtype, subQuery),
                                Len(ParamsOf(opName, args, qtype, subQuery))))
        /\ sendRes' = r
        /\ slept' = 0
        /\ polls' = 0
        /\ matched' = FALSE
        /\ rxErr' = FALSE
        /\ rxRes' = 0
        /\ IF SendFailed(r)
           THEN /\ pc' = "ret" /\ ret' = -1
                /\ UNCHANGED <<awaiting, sendSeq>>
           ELSE /\ pc' = "check" /\ ret' = ret
                /\ sendSeq' = sendSeq + 1
                /\ awaiting' = awaiting \cup {sendSeq + 1}
    /\ origin' = 0
    /\ UNCHANGED rxQueue
    /\ UNCHANGED <<opName, args, qtype, subQuery, frame, elapsed, results, checked, blocks,
                   response, respLen, result, config_state, assignments, entryTable>>
    /\ UNCHANGED <<decodeVars, codecVars, uiVars, queryVars, spnVars>>

\* a whole call of j1939_check_response reading from the receive queue
CheckResponseBus ==
    /\ pc = "check"
    /\ checked' = Append(checked, ExpectedCmdOf(opName))
    /\ \E u \in UninitFrames(ExpectedCmdOf(opName)) :
          LET r == RunQueue([s |-> EntryState(u), q |-> rxQueue, origin |-> 0],
                            ExpectedCmdOf(opName), HasBuffers(opName))
          IN  /\ Store(r.s)
              /\ rxQueue' = r.q
              /\ origin' = r.origin
    /\ UNCHANGED <<awaiting, sendSeq>>
    /\ UNCHANGED <<opName, args, qtype, subQuery, tx, sendRes, ret, blocks,
                   config_state, assignments, entryTable>>
    /\ UNCHANGED <<decodeVars, codecVars, uiVars, queryVars, spnVars>>

\* the module answers one command it has not answered yet: before the command's
\* check_response call reads the queue, or after that call has returned
ModuleReply ==
    /\ \E n \in awaiting :
          /\ rxQueue' = Append(rxQueue, ReplyCf(n, CMD_SAVE))
          /\ awaiting' = awaiting \ {n}
    /\ UNCHANGED <<pc, sendSeq, origin>>
    /\ UNCHANGED <<engineVars, decodeVars, codecVars, uiVars, queryVars, spnVars>>

\* telemetry of the module reaches the empty queue: one frame while the main
\* loop idles, or the backlog that has built up (the main loop reads one frame
\* per 100 ms pass, the dialogs none) when check_response starts to read
TelemetryBurst ==
    /\ pc \in {"main", "check"}
    /\ rxQueue = <<>>
    /\ \E k \in BurstSizes :
          /\ pc = "main" => k = 1
          /\ rxQueue' = Repeat(TelemetryCf, k)
    /\ UNCHANGED <<pc, awaiting, sendSeq, origin>>
    /\ UNCHANGED <<engineVars, decodeVars, codecVars, uiVars, queryVars, spnVars>>

\* main loop: socketcan_receive returned > 0 with the head of the queue
ReceiveBus ==
    /\ pc = "main"
    /\ rxQueue # <<>>
    /\ rxFrame' = socketcan_receive(rxFrame, Head(rxQueue))
    /\ rxQueue' = Tail(rxQueue)
    /\ pc' = "parse"
    /\ UNCHANGED <<sensor_data, clock, updated>>
    /\ UNCHANGED <<awaiting, sendSeq, origin>>
    /\ UNCHANGED <<engineVars, codecVars, uiVars, queryVars, spnVars>>

NextBus ==
    \/ Call_save_config_bounded
    \/ SendCommandBus
    \/ CheckResponseBus
    \/ ReturnSimple
    \/ Resume
    \/ ModuleReply
    \/ TelemetryBurst
    \/ ReceiveBus
    \/ ParseMessage

SpecBus == Init /\ [][NextBus]_vars

-----------------------------------------------------------------------------
(* The pressure preset dialog (F4) and the command it issues *)

\* number of entries of bar_presets[] and psi_presets[]
BarPresetCount == 13
PsiPresetCount == 11

\* variant in which the psi codes follow the bar codes without a gap
PresetOf_contiguous(cat, sel) == IF cat = 0 THEN sel ELSE BarPresetCount + sel

\* case '\n': the value stored through preset
PresetOf(cat, sel) == IF cat = 0 THEN sel ELSE 20 + sel

\* F4: main declares input and preset and enters ui_dialog_pressure_preset;
\* preset is written before it is read, so its value at entry is immaterial
OpenPressureDialog ==
    /\ pc = "main"
    /\ dlgRet = 0
    /\ pc' = "dialog"
    /\ dialog' = "pressure_preset"
    /\ category' = 0
    /\ selection' = 0
    /\ input' = 1
    /\ preset' = 0
    /\ dlgRet' = 0
    /\ UNCHANGED <<engineVars, decodeVars, codecVars, busVars, queryVars, spnVars>>

\* case KEY_LEFT / KEY_RIGHT
KeyLeftRight ==
    /\ pc = "dialog" /\ dialog = "pressure_preset"
    /\ category' = 1 - category
    /\ selection' = 0
    /\ UNCHANGED <<pc, dialog, input, preset, dlgRet>>
    /\ UNCHANGED <<engineVars, decodeVars, codecVars, busVars, queryVars, spnVars>>

\* case KEY_UP
KeyUp ==
    /\ pc = "dialog" /\ dialog = "pressure_preset"
    /\ selection' = IF selection > 0 THEN selection - 1 ELSE selection
    /\ UNCHANGED <<pc, dialog, category, input, preset, dlgRet>>
    /\ UNCHANGED <<engineVars, decodeVars, codecVars, busVars, queryVars, spnVars>>

\* case KEY_DOWN
KeyDown ==
    /\ pc = "dialog" /\ dialog = "pressure_preset"
    /\ selection' = IF category = 0 /\ selection < BarPresetCount - 1
                    THEN selection + 1
                    ELSE IF category = 1 /\ selection < PsiPresetCount - 1
                         THEN selection + 1
                         ELSE selection
    /\ UNCHANGED <<pc, dialog, category, input, preset, dlgRet>>
    /\ UNCHANGED <<engineVars, decodeVars, codecVars, busVars, queryVars, spnVars>>

\* case '+' / '='
KeyPlus ==
    /\ pc = "dialog" /\ dialog = "pressure_preset"
    /\ input' = IF input < 4 THEN input + 1 ELSE input
    /\ UNCHANGED <<pc, dialog, category, selection, preset, dlgRet>>
    /\ UNCHANGED <<engineVars, decodeVars, codecVars, busVars, queryVars, spnVars>>

\* case '-'
KeyMinus ==
    /\ pc = "dialog" /\ dialog = "pressure_preset"
    /\ input' = IF input > 1 THEN input - 1 ELSE input
    /\ UNCHANGED <<pc, dialog, category, selection, preset, dlgRet>>
    /\ UNCHANGED <<engineVars, decodeVars, codecVars, busVars, queryVars, spnVars>>

\* case '\n': store the preset and return 1
KeyEnter ==
    /\ pc = "dialog" /\ dialog = "pressure_preset"
    /\ preset' = PresetOf(category, selection)
    /\ dlgRet' = 1
    /\ dialog' = "none"
    /\ pc' = "main"
    /\ UNCHANGED <<category, selection, input>>
    /\ UNCHANGED <<engineVars, decodeVars, codecVars, busVars, queryVars, spnVars>>

\* case 27: return 0, no command is sent
KeyEscape ==
    /\ pc = "dialog" /\ dialog = "pressure_preset"
    /\ dlgRet' = 0
    /\ dialog' = "none"
    /\ pc' = "main"
    /\ UNCHANGED <<category, selection, input, preset>>
    /\ UNCHANGED <<engineVars, decodeVars, codecVars, busVars, queryVars, spnVars>>

\* the dialog returned 1:
\* j1939_set_pressure_preset(sock, (uint8_t)input, (EPressurePreset)preset)
Call_set_pressure_preset_from_dialog ==
    /\ dlgRet = 1
    /\ Enter("set_pressure_preset",
             [spn |-> 0, enable |-> FALSE, input |-> input % 256, code |-> preset])
    /\ dlgRet' = 0
    /\ UNCHANGED <<dialog, category, selection, input, preset>>
    /\ qtype' = 0 /\ subQuery' = 0
    /\ UNCHANGED <<assignments, entryTable>>

NextUi ==
    \/ OpenPressureDialog
    \/ KeyLeftRight
    \/ KeyUp
    \/ KeyDown
    \/ KeyPlus
    \/ KeyMinus
    \/ KeyEnter
    \/ KeyEscape
    \/ Call_set_pressure_preset_from_dialog
    \/ SendCommand
    \/ CheckResponse
    \/ ReturnSimple
    \/ Resume

SpecUi == Init /\ [][NextUi]_vars

-----------------------------------------------------------------------------
(* The Query action of the main loop (F6) *)

\* variant that takes only a time-out of query_config as a failure
ConfigFailed_timeout_only(e) == e < 0

\* if (err != 0) after j1939_query_config
ConfigFailed(e) == e # 0

\* case KEY_F(6): int err = j1939_query_config(sock, &config_state)
PressF6 ==
    /\ pc = "main"
    /\ key = "none"
    /\ key' = "F6"
    /\ err' = <<>>
    /\ screen' = "none"
    /\ shownTable' = <<>>
    /\ EnterLocals("query_config", NoArgs)
    /\ qtype' = 0 /\ subQuery' = 0
    /\ UNCHANGED <<config_state, assignments, entryTable>>
    /\ UNCHANGED <<decodeVars, codecVars, uiVars, busVars, spnVars>>

\* query_config returned non-zero: an error dialog, and the case ends
F6ConfigFailed ==
    /\ key = "F6"
    /\ pc = "ret"
    /\ opName = "query_config"
    /\ ConfigFailed(ret)
    /\ err' = Append(err, ret)
    /\ screen' = (IF ret > 0 THEN "error_code" ELSE "no_response")
    /\ key' = "none"
    /\ LeaveLocals
    /\ UNCHANGED <<shownTable, config_state>>
    /\ UNCHANGED <<decodeVars, codecVars, uiVars, busVars, spnVars>>

\* query_config returned 0: TSpnAssignments assignments (uninitialised);
\* err = j1939_query_spn_assignments(sock, &assignments)
F6QueryAssignments ==
    /\ key = "F6"
    /\ pc = "ret"
    /\ opName = "query_config"
    /\ ~ConfigFailed(ret)
    /\ err' = Append(err, ret)
    /\ \E t \in StaleTables :
          /\ EnterLocals("query_spn_assignments", NoArgs)
          /\ entryTable' = t
          /\ assignments' = MemsetTable(t)
          /\ qtype' = 1 /\ subQuery' = 0
    /\ UNCHANGED <<key, screen, shownTable, config_state>>
    /\ UNCHANGED <<decodeVars, codecVars, uiVars, busVars, spnVars>>

\* query_spn_assignments returned: the SPN list on 0, the basic display
\* otherwise, and the case ends
F6ShowResult ==
    /\ key = "F6"
    /\ pc = "ret"
    /\ opName = "query_spn_assignments"
    /\ err' = Append(err, ret)
    /\ IF ret = 0
       THEN /\ screen' = "spn_list"
            /\ shownTable' = Append(shownTable, assignments)
       ELSE /\ screen' = "fallback"
            /\ shownTable' = shownTable
    /\ key' = "none"
    /\ LeaveLocals
    /\ UNCHANGED config_state
    /\ UNCHANGED <<decodeVars, codecVars, uiVars, busVars, spnVars>>

NextQuery ==
    \/ PressF6
    \/ SendCommand
    \/ CheckResponse
    \/ ReturnQueryConfig
    \/ SubQueryDone
    \/ F6ConfigFailed
    \/ F6QueryAssignments
    \/ F6ShowResult

SpecQuery == Init /\ [][NextQuery]_vars

-----------------------------------------------------------------------------
(* The enable SPN dialog (F2) and the command it issues *)

\* int temp_spn_vals[] and int pres_spn_vals[] of ui_dialog_enable_spn
temp_spn_vals == <<175, 110, 174, 105, 1131, 1132, 172, 441>>
pres_spn_vals == <<100, 109, 94, 102, 106, 1127, 1128>>

\* the SPN stored on confirmation
SpnOf(cat, sel) ==
    IF cat = 0 THEN temp_spn_vals[sel + 1]
    ELSE IF cat = 1 THEN pres_spn_vals[sel + 1]
    ELSE IF cat = 2 THEN 173
    ELSE 171

\* F2: main declares spn, input and enable and enters ui_dialog_enable_spn;
\* spn is written before it is read, so its value at entry is immaterial
OpenEnableDialog ==
    /\ pc = "main"
    /\ dlgRet = 0
    /\ pc' = "dialog"
    /\ dialog' = "enable_spn"
    /\ category' = 0
    /\ selection' = 0
    /\ input' = 1
    /\ enable' = TRUE
    /\ spn' = 0
    /\ UNCHANGED <<preset, dlgRet>>
    /\ UNCHANGED <<engineVars, decodeVars, codecVars, busVars, queryVars>>

\* case KEY_LEFT
SpnKeyLeft ==
    /\ pc = "dialog" /\ dialog = "enable_spn"
    /\ IF category > 0
       THEN category' = category - 1 /\ selection' = 0
       ELSE UNCHANGED <<category, selection>>
    /\ UNCHANGED <<pc, dialog, input, preset, dlgRet, spn, enable>>
    /\ UNCHANGED <<engineVars, decodeVars, codecVars, busVars, queryVars>>

\* case KEY_RIGHT
SpnKeyRight ==
    /\ pc = "dialog" /\ dialog = "enable_spn"
    /\ IF category < 3
       THEN category' = category + 1 /\ selection' = 0
       ELSE UNCHANGED <<category, selection>>
    /\ UNCHANGED <<pc, dialog, input, preset, dlgRet, spn, enable>>
    /\ UNCHANGED <<engineVars, decodeVars, codecVars, busVars, queryVars>>

\* case KEY_UP
SpnKeyUp ==
    /\ pc = "dialog" /\ dialog = "enable_spn"
    /\ selection' = IF selection > 0 THEN selection - 1 ELSE selection
    /\ UNCHANGED <<pc, dialog, category, input, preset, dlgRet, spn, enable>>
    /\ UNCHANGED <<engineVars, decodeVars, codecVars, busVars, queryVars>>

\* case KEY_DOWN
SpnKeyDown ==
    /\ pc = "dialog" /\ dialog = "enable_spn"
    /\ selection' = IF category = 0 /\ selection < 7
                    THEN selection + 1
                    ELSE IF category = 1 /\ selection < 6
                         THEN selection + 1
                         ELSE selection
    /\ UNCHANGED <<pc, dialog, category, input, preset, dlgRet, spn, enable>>
    /\ UNCHANGED <<engineVars, decodeVars, codecVars, busVars, queryVars>>

\* case '+' / '='
SpnKeyPlus ==
    /\ pc = "dialog" /\ dialog = "enable_spn"
    /\ input' = IF category = 0 /\ input < 8
                THEN input + 1
                ELSE IF category = 1 /\ input < 4
                     THEN input + 1
                     ELSE input
    /\ UNCHANGED <<pc, dialog, category, selection, preset, dlgRet, spn, enable>>
    /\ UNCHANGED <<engineVars, decodeVars, codecVars, busVars, queryVars>>

\* case '-'
SpnKeyMinus ==
    /\ pc = "dialog" /\ dialog = "enable_spn"
    /\ input' = IF input > 1 THEN input - 1 ELSE input
    /\ UNCHANGED <<pc, dialog, category, selection, preset, dlgRet, spn, enable>>
    /\ UNCHANGED <<engineVars, decodeVars, codecVars, busVars, queryVars>>

\* case 'e' / 'E' and case 'd' / 'D'
SpnKeyAction ==
    /\ pc = "dialog" /\ dialog = "enable_spn"
    /\ \E b \in BOOLEAN : enable' = b
    /\ UNCHANGED <<pc, dialog, category, selection, input, preset, dlgRet, spn>>
    /\ UNCHANGED <<engineVars, decodeVars, codecVars, busVars, queryVars>>

\* case '\n' / ' ': store the SPN and return 1
SpnKeyEnter ==
    /\ pc = "dialog" /\ dialog = "enable_spn"
    /\ spn' = SpnOf(category, selection)
    /\ dlgRet' = 1
    /\ dialog' = "none"
    /\ pc' = "main"
    /\ UNCHANGED <<category, selection, input, preset, enable>>
    /\ UNCHANGED <<engineVars, decodeVars, codecVars, busVars, queryVars>>

\* case 27: return 0
SpnKeyEscape ==
    /\ pc = "dialog" /\ dialog = "enable_spn"
    /\ dlgRet' = 0
    /\ dialog' = "none"
    /\ pc' = "main"
    /\ UNCHANGED <<category, selection, input, preset, spn, enable>>
    /\ UNCHANGED <<engineVars, decodeVars, codecVars, busVars, queryVars>>

\* the dialog returned 1:
\* j1939_enable_spn(sock, (uint16_t)spn, enable, (uint8_t)input)
Call_enable_spn_from_dialog ==
    /\ dlgRet = 1
    /\ Enter("enable_spn",
             [spn |-> spn % 65536, enable |-> enable, input |-> input % 256, code |-> 0])
    /\ dlgRet' = 0
    /\ UNCHANGED <<dialog, category, selection, input, preset>>
    /\ qtype' = 0 /\ subQuery' = 0
    /\ UNCHANGED <<assignments, entryTable>>

NextSpn ==
    \/ OpenEnableDialog
    \/ SpnKeyLeft
    \/ SpnKeyRight
    \/ SpnKeyUp
    \/ SpnKeyDown
    \/ SpnKeyPlus
    \/ SpnKeyMinus
    \/ SpnKeyAction
    \/ SpnKeyEnter
    \/ SpnKeyEscape
    \/ Call_enable_spn_from_dialog
    \/ SendCommand
    \/ CheckResponse
    \/ ReturnSimple
    \/ Resume

SpecSpn == Init /\ [][NextSpn]_vars

-----------------------------------------------------------------------------
(* Properties *)

\* C1: for every spn, enable flag and input byte, j1939_enable_spn hands
\* exactly one frame to the transport: identifier 0x18FF0000, extended,
\* length 8, payload [0x01, spn>>8, spn&0xFF, enable?1:0, input, 0xFF x3];
\* enable_spn(175, true, 3) sends [0x01,0x00,0xAF,0x01,0x03,0xFF,0xFF,0xFF].
C1_EnableSpnFrame ==
    opName = "enable_spn" =>
        /\ pc = "send" => tx = <<>>
        /\ pc \in {"check", "poll", "cont", "ret"} =>
              /\ Len(tx) = 1
              /\ tx[1].id = 419364864
              /\ tx[1].extended
              /\ tx[1].len = 8
              /\ tx[1].data = << 1, args.spn \div 256, args.spn % 256,
                                 IF args.enable THEN 1 ELSE 0, args.input,
                                 255, 255, 255 >>
              /\ (args.spn = 175 /\ args.enable /\ args.input = 3) =>
                    tx[1].data = << 1, 0, 175, 1, 3, 255, 255, 255 >>

C1_Witness ==
    /\ pc = "ret"
    /\ opName = "enable_spn"
    /\ args.spn = 175 /\ args.enable /\ args.input = 3
    /\ Len(tx) = 1
    /\ tx[1].data[3] = 175

\* C2: without a matching frame j1939_check_response returns -1 after one
\* 50 ms sleep and exactly 200 polls, each followed by a 5 ms sleep (1050 ms
\* slept): never -1 before the 200th poll, never a 201st poll; the call
\* terminates because every step of the loop either returns or is one more
\* poll of the at most 200.
C2_TimeoutBound ==
    /\ polls <= 200
    /\ pc = "poll" => (elapsed = 5 * polls /\ slept = 50 + 5 * polls)
    /\ (pc = "cont" /\ ~matched) => (result = -1 /\ polls = 200 /\ slept = 1050)
    /\ (pc = "cont" /\ result = -1) => (~matched /\ polls = 200 /\ slept = 1050)

C2_TimeoutAfter200Polls ==
    /\ []C2_TimeoutBound
    /\ [][ pc = "poll" =>
             \/ pc' = "cont"
             \/ pc' = "poll" /\ polls' = polls + 1 /\ elapsed' = elapsed + 5 ]_vars

C2_Witness ==
    /\ pc = "cont"
    /\ result = -1
    /\ ~matched
    /\ polls = 200
    /\ slept = 1050

C4_MatchReturnsErrorAndBlock ==
    LET hit == /\ rxRes > 0
               /\ j1939_get_pgn(frame.id) = 65281
               /\ j1939_get_source(frame.id) = 149
               /\ frame.data[1] = CmdOf(opName)
    IN  /\ pc = "poll" => ~hit
        /\ (pc = "cont" /\ hit) =>
              /\ matched
              /\ result = frame.data[2]
              /\ result \in 0..255
              /\ IF HasBuffers(opName)
                 THEN /\ respLen = 6
                      /\ response = << frame.data[3], frame.data[4], frame.data[5],
                                       frame.data[6], frame.data[7], frame.data[8] >>
                 ELSE /\ respLen = 0
                      /\ response = StaleResponse

C4_Witness ==
    /\ pc = "cont"
    /\ opName = "query_config"
    /\ matched
    /\ result = 3
    /\ respLen = 6
    /\ response = BlockB
    /\ polls > 1

\* C5: every operation returns -1 or a value in 0..255; -1 exactly when its
\* send failed or its check_response ended without a match; a matched
\* response returns its error byte, 0xFF giving 255.
C5_TriState ==
    pc = "ret" =>
        /\ ret = -1 \/ ret \in 0..255
        /\ ret = -1 <=> (sendRes < 0 \/ (Len(results) = Len(tx) /\ ~matched))
        /\ matched => (ret = frame.data[2] /\ ret >= 0)

C5_Witness ==
    /\ pc = "ret"
    /\ matched
    /\ frame.data[2] = 255
    /\ ret = 255

\* C6 as stated: every non-negative result of an operation is one of the
\* eleven codes 0..10.
C6_Claimed ==
    (pc = "ret" /\ ret >= 0) => ret \in 0..ERR_INVALID_PRESET

\* C6: every non-negative result of an operation is the error byte of the
\* matched response frame, unvalidated: any value in 0..255, and one of the
\* codes 0..10 exactly when the frame carries such a byte.
C6_ResultIsErrorByte ==
    (pc = "ret" /\ ret >= 0) =>
        /\ matched
        /\ ret \in 0..255
        /\ ret = frame.data[2]
        /\ frame.data[2] <= ERR_INVALID_PRESET => ret \in 0..ERR_INVALID_PRESET

C6_Witness ==
    /\ pc = "ret"
    /\ opName = "enable_spn"
    /\ ret > ERR_INVALID_PRESET

\* C7: when the transport's send fails the operation returns -1 at once: no
\* sleep, no receive, no check_response for that command.
C7_SendFailureImmediate ==
    sendRes < 0 =>
        /\ pc = "ret"
        /\ ret = -1
        /\ slept = 0
        /\ polls = 0
        /\ rxRes = 0
        /\ Len(results) = Len(tx) - 1

C7_Witness ==
    /\ pc = "ret"
    /\ opName = "save_config"
    /\ sendRes < 0
    /\ ret = -1
    /\ results = <<>>

\* C8: no retry: the single-command operations call send exactly once and
\* run check_response at most once whatever the outcome; no two frames sent
\* by one query_spn_assignments call are the same sub-query.
C8_NoRetry ==
    /\ Len(results) <= Len(tx)
    /\ opName \in SimpleOps \cup {"query_config"} =>
          /\ Len(tx) = (IF pc = "send" THEN 0 ELSE 1)
          /\ pc = "ret" => Len(results) = (IF sendRes < 0 THEN 0 ELSE 1)
    /\ opName = "query_spn_assignments" =>
          /\ Len(tx) <= 6
          /\ \A i, j \in 1..Len(tx) : i # j => tx[i].data # tx[j].data

C8_Witness ==
    /\ pc = "ret"
    /\ opName = "set_tc_type"
    /\ ret = -1
    /\ sendRes = 0
    /\ Len(tx) = 1
    /\ Len(results) = 1

C10_Claimed ==
    ( /\ opName = "query_spn_assignments"
      /\ Len(tx) >= 2
      /\ \/ Len(tx) = 2 /\ sendRes < 0
         \/ Len(results) >= 2 /\ results[2] = -1 ) =>
        /\ pc \in {"cont", "ret"}
        /\ pc = "ret" => ret = -1
        /\ Len(tx) = 2
        /\ tx[1].data[2] = 1 /\ tx[1].data[3] = 0
        /\ tx[2].data[2] = 1 /\ tx[2].data[3] = 1
        /\ assignments.presSpns = entryTable.presSpns

\* C10: when sub-query (1,1) fails with a transport failure the call returns
\* -1, only (1,0) and (1,1) were sent, and every pressure slot is 0: cleared
\* by the memset at entry, whatever it held before, and written by no response.
C10_FailureLeavesPressureZero ==
    ( /\ opName = "query_spn_assignments"
      /\ Len(tx) >= 2
      /\ \/ Len(tx) = 2 /\ sendRes < 0
         \/ Len(results) >= 2 /\ results[2] = -1 ) =>
        /\ pc \in {"cont", "ret"}
        /\ pc = "ret" => ret = -1
        /\ Len(tx) = 2
        /\ tx[1].data[2] = 1 /\ tx[1].data[3] = 0
        /\ tx[2].data[2] = 1 /\ tx[2].data[3] = 1
        /\ assignments.presSpns = [i \in 1..7 |-> 0]

C10_Witness ==
    /\ pc = "ret"
    /\ opName = "query_spn_assignments"
    /\ Len(results) = 2
    /\ results[2] = -1
    /\ ret = -1
    /\ entryTable.presSpns[1] = 100
    /\ assignments.presSpns[1] = 0

\* C11: j1939_query_spn_assignments sends (1,0), (1,1), (1,2), (2,0), (2,1),
\* (2,2) in this order with payload [0x05, type, index, 0xFF x5]; sub-query
\* k+1 is sent only after the check_response of sub-query k returned 0; it
\* returns 0 only after six sends and six matched success responses, and it
\* never runs more than six rounds.
C11_SubQueryOrder ==
    opName = "query_spn_assignments" =>
        /\ Len(tx) <= 6
        /\ Len(results) <= Len(tx)
        /\ \A k \in 1..Len(tx) :
              /\ tx[k].data = << 5, 1 + (k - 1) \div 3, (k - 1) % 3,
                                 255, 255, 255, 255, 255 >>
              /\ k > 1 => (Len(results) >= k - 1 /\ results[k - 1] = 0)
        /\ (pc = "ret" /\ ret = 0) =>
              /\ Len(tx) = 6
              /\ results = << 0, 0, 0, 0, 0, 0 >>
              /\ matched
              /\ frame.data[2] = 0

C11_Witness ==
    /\ pc = "ret"
    /\ opName = "query_spn_assignments"
    /\ ret = 0
    /\ Len(tx) = 6
    /\ tx[6].data[2] = 2
    /\ tx[6].data[3] = 2

\* C12: when j1939_query_spn_assignments returns 0, temperature slot idx
\* (0..7) and pressure slot idx (0..6) hold the big-endian 16-bit value number
\* idx mod 3 of the result block accepted for sub-query idx div 3 of that
\* type, or 0 where that value is 0xFFFF; the table has exactly 8 and 7
\* slots, so the 9th temperature and the 8th and 9th pressure values go nowhere.
C12_TableFromBlocks ==
    (pc = "ret" /\ opName = "query_spn_assignments" /\ ret = 0) =>
        /\ Len(blocks) = 6
        /\ DOMAIN assignments.tempSpns = 1..8
        /\ DOMAIN assignments.presSpns = 1..7
        /\ \A idx \in 0..7 :
              LET b == blocks[idx \div 3 + 1]
                  i == idx % 3
                  v == b[2 * i + 1] * 256 + b[2 * i + 2]
              IN  assignments.tempSpns[idx + 1] = (IF v = 65535 THEN 0 ELSE v)
        /\ \A idx \in 0..6 :
              LET b == blocks[3 + idx \div 3 + 1]
                  i == idx % 3
                  v == b[2 * i + 1] * 256 + b[2 * i + 2]
              IN  assignments.presSpns[idx + 1] = (IF v = 65535 THEN 0 ELSE v)

C12_Witness ==
    /\ pc = "ret"
    /\ opName = "query_spn_assignments"
    /\ ret = 0
    /\ blocks[1] = BlockA
    /\ assignments.tempSpns[1] = 175
    /\ assignments.tempSpns[2] = 0
    /\ assignments.tempSpns[3] = 4660
    /\ blocks[6] = BlockB
    /\ assignments.presSpns[7] = 1131

\* C13: when a sub-query of j1939_query_spn_assignments fails (send failure,
\* non-zero protocol error or timeout) the call returns that value at once
\* and sends no later sub-query; at every moment the table holds exactly what
\* the completed sub-queries wrote (0 elsewhere), so a failure rolls nothing
\* back.
C13_AbortWithoutRollback ==
    opName = "query_spn_assignments" =>
        LET n == Len(blocks)
            val(b, i) == LET v == b[2 * i + 1] * 256 + b[2 * i + 2]
                         IN  IF v = 65535 THEN 0 ELSE v
            failed == \/ sendRes < 0
                      \/ results # <<>> /\ results[Len(results)] # 0
        IN  /\ \A idx \in 0..7 :
                  assignments.tempSpns[idx + 1] =
                      (IF idx \div 3 + 1 <= n
                       THEN val(blocks[idx \div 3 + 1], idx % 3) ELSE 0)
            /\ \A idx \in 0..6 :
                  assignments.presSpns[idx + 1] =
                      (IF 3 + idx \div 3 + 1 <= n
                       THEN val(blocks[3 + idx \div 3 + 1], idx % 3) ELSE 0)
            /\ \A k \in 1..(Len(results) - 1) : results[k] = 0
            /\ failed =>
                  /\ pc \in {"cont", "ret"}
                  /\ Len(tx) = n + 1
                  /\ pc = "ret" =>
                        ret = (IF sendRes < 0 THEN -1 ELSE results[Len(results)])

C13_Witness ==
    /\ pc = "ret"
    /\ opName = "query_spn_assignments"
    /\ ret = 3
    /\ Len(tx) = 5
    /\ Len(blocks) = 4
    /\ assignments.tempSpns[1] = 1131
    /\ assignments.presSpns[1] = 175
    /\ assignments.presSpns[4] = 0

\* C14: commands are strictly serialized: a command frame is sent only when
\* every earlier successful send of the invocation has had its check_response
\* return, each successful send is followed by exactly one check_response,
\* whose expected_cmd is the command byte just sent, and no command is
\* outstanding when control is back in the main loop.
C14_Serialized ==
    /\ Len(checked) <= Len(tx)
    /\ \A k \in 1..Len(checked) : checked[k] = tx[k].data[1]
    /\ pc = "main" => (tx = <<>> /\ checked = <<>>)
    /\ pc = "send" => (Len(checked) = Len(tx) /\ Len(results) = Len(tx))
    /\ pc = "check" =>
          (sendRes = 0 /\ Len(checked) = Len(tx) - 1 /\ Len(results) = Len(checked))
    /\ pc = "poll" =>
          (sendRes = 0 /\ Len(checked) = Len(tx) /\ Len(results) = Len(tx) - 1)
    /\ pc \in {"cont", "ret"} =>
          /\ Len(results) = Len(checked)
          /\ Len(checked) = Len(tx) - (IF sendRes < 0 THEN 1 ELSE 0)

C14_Witness ==
    /\ pc = "cont"
    /\ opName = "reset_config"
    /\ checked = << 7 >>
    /\ Len(tx) = 1
    /\ tx[1].data[1] = 7

\* C15: j1939_parse_message returns false and leaves the whole snapshot (the
\* 19 readings and lastUpdateMs) unchanged for every frame that is not
\* extended-format or whose source address is not 0x95, whatever its PGN and
\* payload.
C15_RejectedFrameNoEffect ==
    [][ ( /\ pc = "parse"
          /\ pc' = "main"
          /\ (~rxFrame.extended \/ rxFrame.id % 256 # 149) ) =>
            /\ updated' = FALSE
            /\ sensor_data' = sensor_data ]_vars

C15_Witness ==
    /\ pc = "main"
    /\ ~rxFrame.extended
    /\ rxFrame.id % 256 = 149
    /\ j1939_get_pgn(rxFrame.id) = 65269
    /\ updated = FALSE
    /\ sensor_data.absoluteBarometricPressurekPa = Sentinel
    /\ sensor_data.coolantTemperatureC # Sentinel

C17_Claimed ==
    ( /\ pc = "main"
      /\ rxFrame.extended
      /\ rxFrame.id % 256 = 149
      /\ rxFrame.data = AllFF
      /\ j1939_get_pgn(rxFrame.id) \in
            {65269, 65270, 65262, 65263, 65129, 65173, 65174, 65164} ) =>
        LET pgn == j1939_get_pgn(rxFrame.id)
            d   == sensor_data
        IN  /\ updated
            /\ pgn = 65269 => /\ d.absoluteBarometricPressurekPa = Sentinel
                              /\ d.ambientTemperatureC = Sentinel
                              /\ d.airInletTemperatureC = Sentinel
            /\ pgn = 65270 => /\ d.boostPressurekPa = Sentinel
                              /\ d.boostTemperatureC = Sentinel
                              /\ d.airInletPressurekPa = Sentinel
                              /\ d.egtTemperatureC = Sentinel
            /\ pgn = 65262 => /\ d.coolantTemperatureC = Sentinel
                              /\ d.fuelTemperatureC = Sentinel
                              /\ d.oilTemperatureC = Sentinel
            /\ pgn = 65263 => /\ d.fuelPressurekPa = Sentinel
                              /\ d.oilPressurekPa = Sentinel
                              /\ d.coolantPressurekPa = Sentinel
            /\ pgn = 65173 => /\ d.cacInletTemperatureC = Sentinel
                              /\ d.transferPipeTemperatureC = Sentinel
            /\ pgn = 65174 => /\ d.cacInletPressurekPa = Sentinel
                              /\ d.transferPipePressurekPa = Sentinel
            /\ pgn = 65164 => /\ d.engineBayTemperatureC = Sentinel
                              /\ d.humidity = HumiditySentinel

\* C18: for PGN 0xFE96 each 16-bit little-endian channel is handled on its
\* own: bytes 0xFF 0xFF leave the reading at its previous value, any other
\* pair sets it to (high<<8 | low) * 0.125; from the initial snapshot the
\* payload [0xFF,0xFF,0x10,0x00,...] leaves the first channel at -999.0 and
\* sets the second to 2.0.
C18_TurboChannelsIndependent ==
    [][ ( /\ pc = "parse"
          /\ pc' = "main"
          /\ rxFrame.extended
          /\ rxFrame.id % 256 = 149
          /\ j1939_get_pgn(rxFrame.id) = 65174 ) =>
            LET d == rxFrame.data
            IN  /\ sensor_data'.cacInletPressurekPa =
                      (IF d[1] = 255 /\ d[2] = 255
                       THEN sensor_data.cacInletPressurekPa
                       ELSE ((d[2] * 256 + d[1]) * Scale) \div 8)
                /\ sensor_data'.transferPipePressurekPa =
                      (IF d[3] = 255 /\ d[4] = 255
                       THEN sensor_data.transferPipePressurekPa
                       ELSE ((d[4] * 256 + d[3]) * Scale) \div 8)
                /\ ( /\ sensor_data = InitSensorData
                      /\ d[1] = 255 /\ d[2] = 255 /\ d[3] = 16 /\ d[4] = 0 ) =>
                        /\ sensor_data'.cacInletPressurekPa = (-999) * Scale
                        /\ sensor_data'.transferPipePressurekPa = 2 * Scale ]_vars

C18_Witness ==
    /\ pc = "main"
    /\ rxFrame.extended
    /\ j1939_get_pgn(rxFrame.id) = 65174
    /\ rxFrame.data = SecondOnly
    /\ updated
    /\ sensor_data.cacInletPressurekPa = 800 * (Scale \div 8)
    /\ sensor_data.transferPipePressurekPa = 2 * Scale

\* C19: an accepted frame with PGN 0xFE69 changes none of the 19 readings,
\* whatever its payload, yet j1939_parse_message returns true and sets
\* lastUpdateMs to the current clock.
C19_Temp2NoFields ==
    [][ ( /\ pc = "parse"
          /\ pc' = "main"
          /\ rxFrame.extended
          /\ rxFrame.id % 256 = 149
          /\ j1939_get_pgn(rxFrame.id) = 65129 ) =>
            /\ updated'
            /\ sensor_data'.lastUpdateMs =
                  ClockTimes[clock].tv_sec * 1000 + ClockTimes[clock].tv_nsec \div 1000000
            /\ [sensor_data' EXCEPT !.lastUpdateMs = 0] =
                  [sensor_data EXCEPT !.lastUpdateMs = 0] ]_vars

C19_Witness ==
    /\ pc = "main"
    /\ rxFrame.extended
    /\ rxFrame.id % 256 = 149
    /\ j1939_get_pgn(rxFrame.id) = 65129
    /\ rxFrame.data = Valid8
    /\ updated
    /\ sensor_data.lastUpdateMs = 7250
    /\ sensor_data.boostTemperatureC = Sentinel
    /\ sensor_data.coolantTemperatureC = Sentinel

\* C20: lastUpdateMs is written only by calls of j1939_parse_message that
\* return true, once per call, with the clock value read during the call;
\* it never decreases, and a frame carrying only unavailable values
\* refreshes it like any other.
C20_TimestampBound ==
    sensor_data.lastUpdateMs <=
        ClockTimes[clock].tv_sec * 1000 + ClockTimes[clock].tv_nsec \div 1000000

C20_TimestampOncePerUpdate ==
    /\ []C20_TimestampBound
    /\ [][ LET now == ClockTimes[clock].tv_sec * 1000
                        + ClockTimes[clock].tv_nsec \div 1000000
               call == pc = "parse" /\ pc' = "main"
           IN  /\ sensor_data'.lastUpdateMs # sensor_data.lastUpdateMs =>
                     (call /\ updated')
               /\ (call /\ updated') => sensor_data'.lastUpdateMs = now
               /\ (call /\ ~updated') =>
                     sensor_data'.lastUpdateMs = sensor_data.lastUpdateMs
               /\ sensor_data'.lastUpdateMs >= sensor_data.lastUpdateMs ]_vars

C20_Witness ==
    /\ pc = "main"
    /\ rxFrame.extended
    /\ j1939_get_pgn(rxFrame.id) = 65262
    /\ rxFrame.data = AllFF
    /\ updated
    /\ sensor_data.lastUpdateMs = 5001
    /\ sensor_data.coolantTemperatureC = Sentinel
    /\ clock = 3

-----------------------------------------------------------------------------
(* Identifier codec *)

\* C21: with PF = (id>>16)&0xFF and PS = (id>>8)&0xFF, the low 8 bits of
\* j1939_get_pgn(id) are zero when PF < 240 and equal PS when PF >= 240;
\* bits 8..15 of the PGN equal PF in both cases.
C21_LowByteFollowsPduFormat ==
    codecOut.pgn # -1 =>
        LET PF == (codecIn.id \div 65536) % 256
            PS == (codecIn.id \div 256) % 256
        IN  /\ PF < 240 => codecOut.pgn % 256 = 0
            /\ PF >= 240 => codecOut.pgn % 256 = PS
            /\ (codecOut.pgn \div 256) % 256 = PF

C21_Witness ==
    /\ codecIn.id = 418379157
    /\ codecOut.pgn = 61184

\* C22: for every 29-bit id and every priority p, the identifier
\* r = j1939_build_id(j1939_get_pgn(id) & 0x3FFFF, p, j1939_get_source(id))
\* has the source and the PGN of id.
C22_RoundTrip ==
    (codecOut.rebuilt # -1 /\ codecIn.id < 2 ^ 29) =>
        /\ j1939_get_source(codecOut.rebuilt) = j1939_get_source(codecIn.id)
        /\ j1939_get_pgn(codecOut.rebuilt) = j1939_get_pgn(codecIn.id)

C22_Witness ==
    /\ codecIn.id = 436139413
    /\ codecIn.priority = 6
    /\ codecOut.rebuilt = 419362197

\* C23: for every identifier with PF >= 240, j1939_get_pgn(id) is the 18-bit
\* value of identifier bits 8..25, (id >> 8) & 0x3FFFF, the bits 24 and 25
\* included.
C23_Claimed ==
    (codecOut.pgn # -1 /\ (codecIn.id \div 65536) % 256 >= 240) =>
        codecOut.pgn = (codecIn.id \div 256) % (2 ^ 18)

\* C24: for any pgn, priority and source, j1939_build_id returns
\* ((priority & 7) << 26) | ((pgn & 0x3FFFF) << 8) | source: the result is
\* below 2^29, each field is read back from its own bits, a priority or PGN
\* out of range is masked, and j1939_get_source of the result is source.
C24_BuildIdPacksMaskedFields ==
    codecOut.built # -1 =>
        LET r == codecOut.built
        IN  /\ r = (codecIn.priority % 8) * (2 ^ 26)
                     + (codecIn.pgn % (2 ^ 18)) * (2 ^ 8) + codecIn.source
            /\ r >= 0 /\ r < 2 ^ 29
            /\ r \div (2 ^ 26) = codecIn.priority % 8
            /\ (r \div (2 ^ 8)) % (2 ^ 18) = codecIn.pgn % (2 ^ 18)
            /\ r % (2 ^ 8) = codecIn.source
            /\ j1939_get_source(r) = codecIn.source

C24_Witness ==
    /\ codecIn.pgn = 16777215
    /\ codecIn.priority = 255
    /\ codecIn.source = 149
    /\ codecOut.built = 536870805

\* C25: for every identifier, the bits above bit 28 set or not,
\* j1939_get_pgn(id) is below 2^18.
C25_PgnFits18Bits ==
    codecOut.pgn # -1 => (codecOut.pgn >= 0 /\ codecOut.pgn < 2 ^ 18)

C25_Witness ==
    /\ codecIn.id = 2147483647
    /\ codecOut.pgn = 65535

-----------------------------------------------------------------------------
(* Command frames *)

\* C26: every frame an operation transmits has identifier 0x18FF0000, is
\* extended, has length 8, carries the operation's command code in byte 0
\* (enable 0x01, tc-type 0x04, query 0x05, save 0x06, reset 0x07, NTC preset
\* 0x08, pressure preset 0x09), its parameter bytes in order from byte 1 and
\* 0xFF in every remaining byte; save and reset send [cmd, 0xFF x7]; of more
\* than 7 parameter bytes only the first 7 are sent.
C26_CommandFrameLayout ==
    /\ \A i \in 1..Len(tx) :
        /\ tx[i].id = 419364864
        /\ tx[i].extended
        /\ tx[i].len = 8
        /\ tx[i].data =
             CASE opName = "enable_spn" ->
                    << 1, args.spn \div 256, args.spn % 256,
                       IF args.enable THEN 1 ELSE 0, args.input, 255, 255, 255 >>
               [] opName = "set_tc_type" ->
                    << 4, args.code, 255, 255, 255, 255, 255, 255 >>
               [] opName = "query_config" ->
                    << 5, 0, 255, 255, 255, 255, 255, 255 >>
               [] opName = "query_spn_assignments" ->
                    << 5, IF i <= 3 THEN 1 ELSE 2, (i - 1) % 3,
                       255, 255, 255, 255, 255 >>
               [] opName = "save_config" ->
                    << 6, 255, 255, 255, 255, 255, 255, 255 >>
               [] opName = "reset_config" ->
                    << 7, 255, 255, 255, 255, 255, 255, 255 >>
               [] opName = "set_ntc_preset" ->
                    << 8, args.input, args.code % 256, 255, 255, 255, 255, 255 >>
               [] opName = "set_pressure_preset" ->
                    << 9, args.input, args.code % 256, 255, 255, 255, 255, 255 >>
    /\ j1939_send_command(CMD_QUERY, << 1, 2, 3, 4, 5, 6, 7, 8, 9 >>, 9).data
           = << 5, 1, 2, 3, 4, 5, 6, 7 >>
    /\ j1939_send_command(CMD_QUERY, << 1, 2, 3, 4, 5, 6, 7 >>, 7).data
           = << 5, 1, 2, 3, 4, 5, 6, 7 >>

C26_Witness ==
    /\ pc = "ret"
    /\ opName = "reset_config"
    /\ Len(tx) = 1
    /\ tx[1].data = << 7, 255, 255, 255, 255, 255, 255, 255 >>

\* C27: j1939_query_config sends one query frame with query type 0; when the
\* result is 0 it sets tempCount, pressureCount, egtEnabled and bme280Enabled
\* from result bytes 0..3 and nothing else; on any other result (protocol
\* error, timeout, send failure) the configuration state is unchanged;
\* sourceAddress and thermocoupleType are never written.
C27_OneQueryFrame ==
    (opName = "query_config" /\ pc \in {"check", "poll", "cont", "ret"}) =>
        /\ Len(tx) = 1
        /\ tx[1].data = << 5, 0, 255, 255, 255, 255, 255, 255 >>

C27_ConfigOnlyOnSuccess ==
    /\ []C27_OneQueryFrame
    /\ [][ /\ config_state' # config_state =>
                (opName = "query_config" /\ pc = "cont" /\ result = 0)
           /\ (opName = "query_config" /\ pc = "cont" /\ pc' = "ret") =>
                /\ ret' = result
                /\ result = 0 =>
                     /\ config_state'.tempCount = response[1]
                     /\ config_state'.pressureCount = response[2]
                     /\ config_state'.egtEnabled = (response[3] # 0)
                     /\ config_state'.bme280Enabled = (response[4] # 0)
                /\ result # 0 => config_state' = config_state
           /\ (opName = "query_config" /\ pc = "send" /\ pc' = "ret") =>
                (ret' = -1 /\ config_state' = config_state)
           /\ config_state'.sourceAddress = config_state.sourceAddress
           /\ config_state'.thermocoupleType = config_state.thermocoupleType ]_vars

C27_Witness ==
    /\ pc = "ret"
    /\ opName = "query_config"
    /\ ret = 3
    /\ config_state.tempCount = 4
    /\ config_state.bme280Enabled

\* C28: every pressure preset frame that follows from a dialog selection
\* carries in payload byte 2 a preset code in 0..15 or 20..30, never one of
\* 16..19 nor one above 30: a bar selection is sent as its index, a psi
\* selection as 20 plus its index; payload byte 1 is the input index.
C28_DialogPresetCodes ==
    \A i \in 1..Len(tx) :
        tx[i].data[1] = 9 =>
            /\ tx[i].data[3] \in (0..15) \cup (20..30)
            /\ tx[i].data[3] \notin 16..19
            /\ tx[i].data[3] <= 30
            /\ category = 0 => tx[i].data[3] = selection
            /\ category = 1 => tx[i].data[3] = 20 + selection
            /\ tx[i].data[2] = input
            /\ input \in 1..4

C28_Witness ==
    /\ pc = "ret"
    /\ opName = "set_pressure_preset"
    /\ category = 1
    /\ selection = 10
    /\ tx[1].data = << 9, 4, 30, 255, 255, 255, 255, 255 >>

-----------------------------------------------------------------------------
(* Sensor snapshot *)

\* C29: the snapshot starts with its 19 readings at -999.0 and lastUpdateMs
\* at 0; a reading changes only in a call of j1939_parse_message on an
\* accepted frame of the PGN that maps it, and it leaves -999.0 only when
\* that frame carries a raw value other than the unavailable marker for it
\* (0xFF, or 0xFF 0xFF for a two-byte value); a rejected frame changes nothing.
C29_ReadingsFromValidRawOnly ==
    /\ Cardinality(DOMAIN sensor_data \ {"lastUpdateMs"}) = 19
    /\ \A f \in DOMAIN sensor_data \ {"lastUpdateMs", "humidity"} :
          sensor_data[f] = (-999) * 160
    /\ sensor_data.humidity = (-999) * 2097152
    /\ sensor_data.lastUpdateMs = 0
    /\ [][ LET d == rxFrame.data
               call == pc = "parse" /\ pc' = "main"
               accepted == rxFrame.extended /\ rxFrame.id % 256 = 149
               pgn == j1939_get_pgn(rxFrame.id)
               PgnOf(f) ==
                   CASE f \in {"absoluteBarometricPressurekPa", "ambientTemperatureC",
                               "airInletTemperatureC"} -> 65269
                     [] f \in {"boostPressurekPa", "boostTemperatureC",
                               "airInletPressurekPa", "egtTemperatureC"} -> 65270
                     [] f \in {"coolantTemperatureC", "fuelTemperatureC",
                               "oilTemperatureC"} -> 65262
                     [] f \in {"fuelPressurekPa", "oilPressurekPa",
                               "coolantPressurekPa"} -> 65263
                     [] f \in {"cacInletTemperatureC",
                               "transferPipeTemperatureC"} -> 65173
                     [] f \in {"cacInletPressurekPa",
                               "transferPipePressurekPa"} -> 65174
                     [] f \in {"engineBayTemperatureC", "humidity"} -> 65164
               Unavailable(f) ==
                   IF f = "humidity" THEN (-999) * 2097152 ELSE (-999) * 160
               RawValid(f) ==
                   CASE f = "absoluteBarometricPressurekPa" -> d[1] # 255
                     [] f = "ambientTemperatureC" -> ~(d[4] = 255 /\ d[5] = 255)
                     [] f = "airInletTemperatureC" -> d[6] # 255
                     [] f = "boostPressurekPa" -> d[2] # 255
                     [] f = "boostTemperatureC" -> d[3] # 255
                     [] f = "airInletPressurekPa" -> d[4] # 255
                     [] f = "egtTemperatureC" -> ~(d[6] = 255 /\ d[7] = 255)
                     [] f = "coolantTemperatureC" -> d[1] # 255
                     [] f = "fuelTemperatureC" -> d[2] # 255
                     [] f = "oilTemperatureC" -> ~(d[3] = 255 /\ d[4] = 255)
                     [] f = "fuelPressurekPa" -> d[1] # 255
                     [] f = "oilPressurekPa" -> d[4] # 255
                     [] f = "coolantPressurekPa" -> d[7] # 255
                     [] f = "cacInletTemperatureC" -> d[1] # 255
                     [] f = "transferPipeTemperatureC" -> d[2] # 255
                     [] f = "cacInletPressurekPa" -> ~(d[1] = 255 /\ d[2] = 255)
                     [] f = "transferPipePressurekPa" -> ~(d[3] = 255 /\ d[4] = 255)
                     [] f = "engineBayTemperatureC" -> d[1] # 255
                     [] f = "humidity" -> d[7] # 255
           IN  /\ \A f \in DOMAIN sensor_data \ {"lastUpdateMs"} :
                    /\ sensor_data'[f] # sensor_data[f] =>
                          (call /\ accepted /\ pgn = PgnOf(f))
                    /\ (sensor_data[f] = Unavailable(f) /\ sensor_data'[f] # Unavailable(f))
                          => RawValid(f)
               /\ (call /\ ~accepted) =>
                    (sensor_data' = sensor_data /\ ~updated') ]_vars

C29_Witness ==
    /\ pc = "main"
    /\ ~rxFrame.extended
    /\ ~updated
    /\ sensor_data.coolantTemperatureC = 160 * 160
    /\ sensor_data.ambientTemperatureC = (-999) * 160
    /\ sensor_data.cacInletPressurekPa = 100 * 160

-----------------------------------------------------------------------------
(* Scalar decodings *)

\* C31 as stated: each reading is decoded from its byte offsets with the
\* stated scale, as exact rationals: 1-byte temperature raw - 40, 2-byte
\* little-endian temperature (high<<8|low) * 0.03125 - 273, 2 kPa/bit
\* pressure raw * 2, 4 kPa/bit pressure raw * 4, barometric pressure
\* raw * 0.5, humidity raw * 0.4; a 1-byte raw 0xFF gives -999.0 and a 2-byte
\* temperature gives -999.0 only when both bytes are 0xFF.
C31_Claimed ==
    [][ (pc = "parse" /\ pc' = "main" /\ rxFrame.extended /\ rxFrame.id % 256 = 149) =>
          LET d == rxFrame.data
              pgn == (rxFrame.id \div 256) % 65536
              n == sensor_data'
              NA == (-999) * 160
              Temp1(b) == IF b = 255 THEN NA ELSE (b - 40) * 160
              Temp2(low, high) ==
                  IF low = 255 /\ high = 255 THEN NA
                  ELSE (high * 256 + low) * 5 - 273 * 160
              Pres2(b) == IF b = 255 THEN NA ELSE b * 2 * 160
              Pres4(b) == IF b = 255 THEN NA ELSE b * 4 * 160
              Baro(b) == IF b = 255 THEN NA ELSE b * 80
          IN  /\ pgn = 65269 =>
                    /\ n.absoluteBarometricPressurekPa = Baro(d[1])
                    /\ n.ambientTemperatureC = Temp2(d[4], d[5])
                    /\ n.airInletTemperatureC = Temp1(d[6])
              /\ pgn = 65270 =>
                    /\ n.boostPressurekPa = Pres2(d[2])
                    /\ n.boostTemperatureC = Temp1(d[3])
                    /\ n.airInletPressurekPa = Pres2(d[4])
                    /\ n.egtTemperatureC = Temp2(d[6], d[7])
              /\ pgn = 65262 =>
                    /\ n.coolantTemperatureC = Temp1(d[1])
                    /\ n.fuelTemperatureC = Temp1(d[2])
                    /\ n.oilTemperatureC = Temp2(d[3], d[4])
              /\ pgn = 65263 =>
                    /\ n.fuelPressurekPa = Pres4(d[1])
                    /\ n.oilPressurekPa = Pres4(d[4])
                    /\ n.coolantPressurekPa = Pres2(d[7])
              /\ pgn = 65173 =>
                    /\ n.cacInletTemperatureC = Temp1(d[1])
                    /\ n.transferPipeTemperatureC = Temp1(d[2])
              /\ pgn = 65164 =>
                    /\ n.engineBayTemperatureC = Temp1(d[1])
                    /\ IF d[7] = 255 THEN n.humidity = (-999) * 2097152
                       ELSE 5 * n.humidity = d[7] * 2 * 2097152 ]_vars

\* C31: as C31_Claimed, except that the humidity is the single-precision
\* product (float)raw * 0.4f: it equals raw * 0.4 exactly when raw is a
\* multiple of 5 and differs from it by at most raw * 0.4 * 2^-23 otherwise.
C31_ScalesWithFloatHumidity ==
    [][ (pc = "parse" /\ pc' = "main" /\ rxFrame.extended /\ rxFrame.id % 256 = 149) =>
          LET d == rxFrame.data
              pgn == (rxFrame.id \div 256) % 65536
              n == sensor_data'
              NA == (-999) * 160
              Temp1(b) == IF b = 255 THEN NA ELSE (b - 40) * 160
              Temp2(low, high) ==
                  IF low = 255 /\ high = 255 THEN NA
                  ELSE (high * 256 + low) * 5 - 273 * 160
              Pres2(b) == IF b = 255 THEN NA ELSE b * 2 * 160
              Pres4(b) == IF b = 255 THEN NA ELSE b * 4 * 160
              Baro(b) == IF b = 255 THEN NA ELSE b * 80
          IN  /\ pgn = 65269 =>
                    /\ n.absoluteBarometricPressurekPa = Baro(d[1])
                    /\ n.ambientTemperatureC = Temp2(d[4], d[5])
                    /\ n.airInletTemperatureC = Temp1(d[6])
              /\ pgn = 65270 =>
                    /\ n.boostPressurekPa = Pres2(d[2])
                    /\ n.boostTemperatureC = Temp1(d[3])
                    /\ n.airInletPressurekPa = Pres2(d[4])
                    /\ n.egtTemperatureC = Temp2(d[6], d[7])
              /\ pgn = 65262 =>
                    /\ n.coolantTemperatureC = Temp1(d[1])
                    /\ n.fuelTemperatureC = Temp1(d[2])
                    /\ n.oilTemperatureC = Temp2(d[3], d[4])
              /\ pgn = 65263 =>
                    /\ n.fuelPressurekPa = Pres4(d[1])
                    /\ n.oilPressurekPa = Pres4(d[4])
                    /\ n.coolantPressurekPa = Pres2(d[7])
              /\ pgn = 65173 =>
                    /\ n.cacInletTemperatureC = Temp1(d[1])
                    /\ n.transferPipeTemperatureC = Temp1(d[2])
              /\ pgn = 65164 =>
                    /\ n.engineBayTemperatureC = Temp1(d[1])
                    /\ IF d[7] = 255 THEN n.humidity = (-999) * 2097152
                       ELSE /\ d[7] % 5 = 0 => 5 * n.humidity = d[7] * 2 * 2097152
                            /\ d[7] % 5 # 0 => 5 * n.humidity # d[7] * 2 * 2097152
                            /\ 2 * (5 * n.humidity - d[7] * 2 * 2097152) <= d[7]
                            /\ 2 * (d[7] * 2 * 2097152 - 5 * n.humidity) <= d[7] ]_vars

C31_Witness ==
    /\ pc = "main"
    /\ updated
    /\ (rxFrame.id \div 256) % 65536 = 65164
    /\ rxFrame.data[7] = 26
    /\ sensor_data.humidity = 21810382
    /\ sensor_data.engineBayTemperatureC = (-39) * 160

-----------------------------------------------------------------------------
(* Frames read during a command round trip *)

\* C32: j1939_check_response never takes a frame that is not in the extended
\* format as the matching response, whatever its identifier and payload.
C32_Claimed ==
    (pc = "cont" /\ result >= 0) => frame.extended

\* C33 as stated: an operation that returns a non-negative result has consumed
\* the module's reply to the command frame sent by that same invocation
C33_Claimed ==
    (pc = "ret" /\ ret >= 0) => origin = sendSeq

\* C33, amended: an operation that returns a non-negative result has consumed a
\* reply of the module to a command frame with the same command code, sent by
\* this invocation or by an earlier one; when it is the late reply to an
\* earlier command, the reply to this invocation's own frame is still to come
\* or is left unread in the receive queue
C33_ReplyToThisOrEarlierCommand ==
    (pc = "ret" /\ ret >= 0) =>
        /\ origin \in 1..sendSeq
        /\ origin # sendSeq =>
              \/ sendSeq \in awaiting
              \/ \E i \in DOMAIN rxQueue : rxQueue[i].re = sendSeq

C33_Witness ==
    /\ pc = "ret" /\ ret >= 0
    /\ origin \in 1..(sendSeq - 1)
    /\ \E i \in DOMAIN rxQueue : rxQueue[i].re = sendSeq

\* C34: a call of j1939_check_response reads at most one frame per poll and at
\* most 200 frames, always from the head of the queue; when 200 or more frames
\* that are not responses stand before the module's reply, the call returns -1
\* and the reply stays in the queue
C34_OneFramePerPoll ==
    [][(pc = "check" /\ pc' = "cont") =>
          LET n == Len(rxQueue) - Len(rxQueue')
          IN  /\ n \in 0..200
              /\ n <= polls' - polls
              /\ polls' - polls <= 200
              /\ rxQueue' = SubSeq(rxQueue, n + 1, Len(rxQueue))
              /\ (/\ Len(rxQueue) > 200
                  /\ \A i \in 1..200 : rxQueue[i].re = 0) =>
                     /\ result' = -1
                     /\ rxQueue' = SubSeq(rxQueue, 201, Len(rxQueue))]_vars

C34_Witness ==
    /\ pc = "cont"
    /\ result = -1
    /\ polls = 200
    /\ rxQueue # <<>>
    /\ Head(rxQueue).re = sendSeq
    /\ slept <= 1050

\* C35: no step of a command round trip changes the sensor snapshot, its
\* timestamp or the main loop's frame, and no such step hands a frame to
\* j1939_parse_message; the frames a check_response call reads are gone from the
\* queue: what is left is the part of the old queue behind them, and when the
\* call has timed out every frame it read is lost
C35_ReadFramesAreLost ==
    [][(pc \in {"send", "check", "cont"}) =>
          /\ UNCHANGED <<sensor_data, clock, updated, rxFrame>>
          /\ pc' # "parse"
          /\ (pc = "check" /\ pc' = "cont") =>
                /\ \E n \in 0..Len(rxQueue) :
                      /\ rxQueue' = SubSeq(rxQueue, n + 1, Len(rxQueue))
                      /\ n > 0 => frame' = socketcan_receive(frame', rxQueue[n])
                /\ (~matched' /\ Len(rxQueue) <= 200) => rxQueue' = <<>>]_vars

C35_Witness ==
    /\ pc = "ret"
    /\ ret = 0
    /\ polls = 200
    /\ origin = sendSeq
    /\ frame.id = RespId
    /\ rxQueue = <<>>
    /\ sensor_data = InitSensorData
    /\ ~updated

\* C36 as stated: a frame is matched, and its error code and result block are
\* taken, only from payload bytes the frame itself carried: a matched frame has
\* at least two data bytes, and all eight when the result block is copied
C36_Claimed ==
    (pc = "cont" /\ matched) =>
        frame.len >= (IF HasBuffers(opName) THEN 8 ELSE 2)

\* C37: j1939_query_spn_assignments clears all 15 entries before its first
\* sub-query is sent, whatever the caller's table held; when it has returned,
\* with any result, every entry of a sub-query that was not completed is 0
C37_TableClearedAtEntry ==
    opName = "query_spn_assignments" =>
        /\ DOMAIN assignments.tempSpns = 1..8
        /\ DOMAIN assignments.presSpns = 1..7
        /\ blocks = <<>> =>
              /\ \A k \in 1..8 : assignments.tempSpns[k] = 0
              /\ \A k \in 1..7 : assignments.presSpns[k] = 0
        /\ pc = "ret" =>
              /\ \A k \in 1..8 :
                    (k - 1) \div 3 + 1 > Len(blocks) => assignments.tempSpns[k] = 0
              /\ \A k \in 1..7 :
                    3 + (k - 1) \div 3 + 1 > Len(blocks) => assignments.presSpns[k] = 0

C37_Witness ==
    /\ pc = "ret"
    /\ opName = "query_spn_assignments"
    /\ ret = -1
    /\ Len(tx) = 1
    /\ sendRes < 0
    /\ entryTable.tempSpns[1] = 110
    /\ entryTable.presSpns[7] = 100
    /\ assignments = ZeroTable

-----------------------------------------------------------------------------
(* Key handlers of the main loop *)

\* C38: in the Query action j1939_query_spn_assignments runs only after
\* j1939_query_config has returned 0 in the same action; when query_config
\* returns non-zero the action ends with an error dialog and sends no further
\* command frame; the SPN list is shown only when the assignment query
\* returned 0, with the table of all six sub-queries
C38_AssignmentsOnlyAfterConfig ==
    /\ [](/\ opName = "query_spn_assignments" =>
                (key = "F6" /\ err = <<0>>)
          /\ (key = "none" /\ Len(err) = 1) =>
                (/\ err[1] # 0
                 /\ screen \in {"error_code", "no_response"}
                 /\ shownTable = <<>>)
          /\ screen = "spn_list" <=> (Len(err) = 2 /\ err[2] = 0)
          /\ screen = "fallback" <=> (Len(err) = 2 /\ err[2] # 0)
          /\ Len(shownTable) = (IF screen = "spn_list" THEN 1 ELSE 0))
    /\ [][/\ (key = "F6" /\ pc = "ret" /\ opName = "query_config" /\ ret # 0) =>
               (key' = "none" /\ pc' = "main" /\ opName' = "none" /\ tx' = <<>>)
          /\ (key = "none" /\ key' = "none") => UNCHANGED <<tx, pc>>
          /\ (shownTable' # shownTable /\ shownTable' # <<>>) =>
               /\ opName = "query_spn_assignments" /\ pc = "ret" /\ ret = 0
               /\ Len(blocks) = 6
               /\ shownTable' = <<assignments>>]_vars

C38_Witness ==
    /\ key = "none"
    /\ err = <<0, 0>>
    /\ screen = "spn_list"
    /\ shownTable[1].tempSpns[1] = 175
    /\ shownTable[1].presSpns[7] = 1131

\* C39 as stated: a confirmation of ui_dialog_enable_spn returns an input within
\* the range shown for the selected category (1..8 temperature, 1..4 pressure)
\* and a selection within that category's SPN list (0..7, 0..6)
C39_Claimed ==
    (dlgRet = 1 /\ spn # 0) =>
        /\ category = 0 => (input \in 1..8 /\ selection \in 0..7)
        /\ category = 1 => (input \in 1..4 /\ selection \in 0..6)

====
